---- MODULE Spec2Model ----
(***************************************************************************)
(* Model of the audit subsystem of vault: the audit mount table of the     *)
(* core (enableAudit / disableAudit / persistAudit) and the AuditBroker    *)
(* (Register / Deregister / IsRegistered and the LogRequest, LogResponse   *)
(* and ServeHTTP fan-outs).                                                *)
(*                                                                         *)
(* Strings that the code inspects character by character (mount paths) are *)
(* sequences of one-character strings, so that strings.HasPrefix and       *)
(* strings.HasSuffix are computed, not assumed.                            *)
(*                                                                         *)
(* Two specifications share the variables:                                 *)
(*   Spec        worker goroutines calling enableAudit / disableAudit,     *)
(*               one step per access to shared memory;                     *)
(*   SpecBroker  goroutines dispatching through the broker while sinks are *)
(*               registered and deregistered.                              *)
(***************************************************************************)
EXTENDS Integers, Sequences, FiniteSets, TLC

VARIABLES
    \* ---- Core (vault/audit.go) ----
    audit,      \* c.audit: which *MountTable the core points to (index into mutex)
    Entries,    \* c.audit.Entries: the entries of the table c.audit points to
    mutex,      \* per MountTable object published so far: its embedded mutex is locked
    barrier,    \* value stored under coreAuditConfigPath in the barrier
    backends,   \* AuditBroker.backends: name -> sink
    nextUUID,   \* generateUUID(): the next fresh identifier
    calls,      \* number of enableAudit / disableAudit calls started
    fatal,      \* the Go runtime has thrown "sync: unlock of unlocked mutex"
    pc,         \* per goroutine: position inside enableAudit / disableAudit
    op,         \* per goroutine: "enable" | "disable" | "none"
    entry,      \* per goroutine: the *MountEntry argument (Path is the path argument of disable)
    lockTbl,    \* per goroutine: the table whose mutex c.audit.Lock() was called on
    deferTbl,   \* per goroutine: the table whose mutex the deferred Unlock() releases
    newTable,   \* per goroutine: Entries of the local newTable
    result,     \* per goroutine: the error the call returns ("ok" for nil)
    didPut,     \* per goroutine: this call's barrier.Put succeeded
    didSwap,    \* per goroutine: this call assigned c.audit
    didReg,     \* per goroutine: this call called Register / Deregister
    \* ---- Broker dispatch (SpecBroker) ----
    dpc,        \* per dispatcher: position inside LogRequest / LogResponse / ServeHTTP
    dkind,      \* per dispatcher: "request" | "response" | "http" | "none"
    dargs,      \* per dispatcher: the caller's arguments
    dsnap,      \* per dispatcher: a.backends when the fan-out took the read lock
    dtodo,      \* per dispatcher: names the range loop has not visited yet
    dany,       \* per dispatcher: anyLogged
    dfail,      \* per dispatcher: number of sinks that returned an error
    derr,       \* per dispatcher: the error the sink visited last returned
    dlog,       \* per dispatcher: the sink calls made by this dispatch, in order
    dres,       \* per dispatcher: what the call returned
    oplog,      \* per dispatcher: the operational log lines written by this dispatch
    dcount,     \* number of dispatches started
    \* ---- Unseal of this core and of a second core on the same barrier (SpecReload) ----
    c1pc,       \* this core: "sealed" | "loaded" | "ready" | "failed"
    c2pc,       \* second core: "sealed" | "loaded" | "ready" | "failed"
    c2Entries,  \* second core: c.audit.Entries (empty while c.audit is nil)
    c2backends, \* second core: c.auditBroker.backends
    \* ---- ServeHTTP: the handler and the client's response writer ----
    hscript,    \* per dispatcher: the calls the downstream handler makes on its writer
    written,    \* per dispatcher: the http.ResponseWriter w the client is served from
    \* ---- Sinks: the file and syslog backends under one fan-out (SpecSink) ----
    sinkB,      \* per sink: the Backend the factory built, and whether b.f is open
    heap,       \* the objects the caller passes by pointer, by address
    skind,      \* the fan-out in progress: "request" | "response" | "http" | "none"
    sargs,      \* the pointers (and the response error) every sink of the fan-out is given
    sorig,      \* the caller's objects when the fan-out started
    visited,    \* the sinks called so far in this fan-out, in order
    sret,       \* per sink: what its call was given, emitted and returned
    scount,     \* number of fan-outs started
    \* ---- sanitizeHeader and formatHTTPHeader on one header map (SpecHeader) ----
    hpc,        \* "idle" | "start" | "sanitized" | "formatted"
    hgiven,     \* the http.Header given to sanitizeHeader
    newHeader,  \* what sanitizeHeader returned
    header,     \* what formatHTTPHeader returned for newHeader
    \* ---- ServeHTTP on one exchange, step by step (SpecTee) ----
    tpc,        \* "idle" | "start" | "handler" | "returned" | "timed" | "loop" | "done"
    tee,        \* the TeeResponseWriter, with the writer w it wraps
    body,       \* the TeeReadCloser: rest of r.Body not yet read, Bytes
    tcalls,     \* the calls the handler has made so far, with what Read gave it
    thandler,   \* how often h.ServeHTTP was invoked and has returned
    tlog,       \* the LogHTTPRequest calls made so far, with what they were given
    \* ---- HashStructure on one value with one callback (SpecHash) ----
    xpc,        \* "idle" | "start" | "done"
    xheap,      \* the values held by reference: the caller's at address 1
    xorig,      \* the caller's value when HashStructure was called
    xcb,        \* the callback: the strings it returns an error for
    xret,       \* what HashStructure returned, and the strings the callback was given
    \* ---- concurrent Log* calls on one file sink (SpecOpen) ----
    opc,        \* where each call in flight stands inside the Log* method
    bf,         \* b.f: the handle the sink holds, 0 for nil
    opened,     \* number of os.OpenFile calls that returned a handle
    owritten,   \* the handle each entry was written through, in the order of the writes
    ologs,      \* number of Log* calls made on the sink
    \* ---- one ServeHTTP call beside Register / Deregister (SpecServe) ----
    vpc,        \* where the ServeHTTP call stands
    varrived,   \* a.backends as it was when ServeHTTP was entered
    vreturned,  \* a.backends as it was when the handler returned
    vsnap,      \* a.backends as it was when the read lock was taken
    vtodo,      \* names the range loop has still to visit
    vcalled,    \* the sinks whose LogHTTPRequest was called, in order
    vregs       \* number of Register / Deregister calls made

coreVars == <<audit, Entries, mutex, barrier, nextUUID, calls, fatal, pc, op, entry,
              lockTbl, deferTbl, newTable, result, didPut, didSwap, didReg>>
brokerVars == <<dpc, dkind, dargs, dsnap, dtodo, dany, dfail, derr, dlog, dres, oplog, dcount>>
reloadVars == <<c1pc, c2pc, c2Entries, c2backends>>
httpVars == <<hscript, written>>
sinkVars == <<sinkB, heap, skind, sargs, sorig, visited, sret, scount>>
headerVars == <<hpc, hgiven, newHeader, header>>
teeVars == <<tpc, tee, body, tcalls, thandler, tlog>>
hashVars == <<xpc, xheap, xorig, xcb, xret>>
openVars == <<opc, bf, opened, owritten, ologs>>
serveVars == <<vpc, varrived, vreturned, vsnap, vtodo, vcalled, vregs>>
unitVars == <<headerVars, teeVars, hashVars, openVars, serveVars>>
moreVars == <<reloadVars, httpVars, sinkVars, unitVars>>
vars == <<coreVars, backends, brokerVars, moreVars>>

(***************************************************************************)
(* Bounds                                                                  *)
(***************************************************************************)
MaxCalls == 3        \* enableAudit / disableAudit calls started in one run
MaxDispatch == 2     \* broker dispatches started in one run

Procs == {"w1", "w2", "w3"}      \* worker goroutines of the core
Dispatchers == {"d1", "d2"}      \* goroutines dispatching through the broker

Nil == "nil"

(***************************************************************************)
(* Strings                                                                 *)
(***************************************************************************)
Slash == <<"/">>

\* strings.HasPrefix(s, prefix)
HasPrefix(s, prefix) ==
    /\ Len(prefix) <= Len(s)
    /\ SubSeq(s, 1, Len(prefix)) = prefix

\* strings.HasSuffix(s, suffix)
HasSuffix(s, suffix) ==
    /\ Len(suffix) <= Len(s)
    /\ SubSeq(s, Len(s) - Len(suffix) + 1, Len(s)) = suffix

\* "", "a", "a/", "a/b", "/a"
Empty == << >>
PathA == <<"a">>
PathASlash == <<"a", "/">>
PathAB == <<"a", "/", "b">>
PathSlashA == <<"/", "a">>

\* c.auditBackends: the driver types that have a factory
auditBackends == {"noop", "file"}

\* Options maps (map[string]string) callers pass in entry.Options
NoOptions == [k \in {} |-> ""]
OptionsNoPath == [log_raw |-> "true"]
OptionsBadBool == [path |-> "audit.log", log_raw |-> "maybe"]

\* The *MountEntry arguments callers pass to enableAudit (Path, Type, Options)
EnableInputs ==
    { [Path |-> Empty, Type |-> "noop", Options |-> NoOptions],
      [Path |-> PathA, Type |-> "noop", Options |-> NoOptions],
      [Path |-> PathASlash, Type |-> "noop", Options |-> NoOptions],
      [Path |-> PathAB, Type |-> "noop", Options |-> NoOptions],
      [Path |-> PathSlashA, Type |-> "noop", Options |-> NoOptions],
      [Path |-> PathA, Type |-> "bogus", Options |-> NoOptions],
      [Path |-> PathAB, Type |-> "file", Options |-> OptionsNoPath],
      [Path |-> PathAB, Type |-> "file", Options |-> OptionsBadBool] }

\* The path arguments callers pass to disableAudit
DisableInputs == { PathA, PathASlash, PathAB }

(***************************************************************************)
(* Pure helpers of the core                                                *)
(***************************************************************************)
\* "Ensure we end the path in a slash"
EnsureSlash(path) ==
    IF HasSuffix(path, Slash) THEN path ELSE path \o Slash

\* Mutant: only the first case of the switch, existing entry under the new path.
PathInUse_OneDirection(entries, path) ==
    \E i \in DOMAIN entries : HasPrefix(entries[i].Path, path)

\* The "Look for matching name" loop of enableAudit: some existing entry has
\* the new path as a prefix, or is a prefix of the new path.
PathInUse(entries, path) ==
    \E i \in DOMAIN entries :
        \/ HasPrefix(entries[i].Path, path)
        \/ HasPrefix(path, entries[i].Path)

\* strconv.ParseBool: the strings it accepts, and its value on them
ParseBoolTrue == {"1", "t", "T", "TRUE", "true", "True"}
ParseBoolFalse == {"0", "f", "F", "FALSE", "false", "False"}
ParseBool(str) ==
    IF str \in ParseBoolTrue THEN [err |-> "ok", b |-> TRUE]
    ELSE IF str \in ParseBoolFalse THEN [err |-> "ok", b |-> FALSE]
    ELSE [err |-> "strconv.ParseBool: invalid syntax", b |-> FALSE]

\* An option that is a boolean when present, with its default when absent
BoolOption(conf, key) ==
    IF key \in DOMAIN conf THEN ParseBool(conf[key]) ELSE [err |-> "ok", b |-> FALSE]

\* file.Factory(conf): the error it returns ("ok" for nil) and the Backend
Factory(conf) ==
    LET raw == BoolOption(conf, "log_raw")
        http == BoolOption(conf, "log_http")
    IN  IF "path" \notin DOMAIN conf THEN [err |-> "path is required"]
        ELSE IF raw.err # "ok" THEN [err |-> raw.err]
        ELSE IF http.err # "ok" THEN [err |-> http.err]
        ELSE [err |-> "ok", Path |-> conf["path"], LogRaw |-> raw.b, LogHTTP |-> http.b]

\* Mutant: a backend type without a factory is let through.
newAuditBackend_NoLookup(t, conf) ==
    IF t = "file" THEN Factory(conf).err ELSE "ok"

\* newAuditBackend: the factory lookup, then the factory on the options; the
\* error returned ("ok" stands for a nil error).  The noop factory of the
\* tests accepts every options map.
newAuditBackend(t, conf) ==
    IF t \notin auditBackends THEN "unknown backend type"
    ELSE IF t = "file" THEN Factory(conf).err
    ELSE "ok"

\* MountTable.Clone: a new table holding a copy of every entry
Clone(entries) == [i \in DOMAIN entries |-> entries[i]]

RemoveAt(s, i) == SubSeq(s, 1, i - 1) \o SubSeq(s, i + 1, Len(s))

\* MountTable.Remove(path): drops the first entry whose Path is path and
\* reports whether there was one
Remove(entries, path) ==
    LET hits == {i \in DOMAIN entries : entries[i].Path = path} IN
    IF hits = {}
    THEN [found |-> FALSE, Entries |-> entries]
    ELSE LET i == CHOOSE j \in hits : \A k \in hits : j <= k
         IN  [found |-> TRUE, Entries |-> RemoveAt(entries, i)]

\* encoding/json: a JSON object is the sequence of its <<name, value>> members;
\* decoding a struct field looks its name up and leaves the zero value when
\* the object has no such member.
JSONMember(obj, name, zero) ==
    IF \E i \in DOMAIN obj : obj[i][1] = name
    THEN obj[CHOOSE i \in DOMAIN obj : obj[i][1] = name][2]
    ELSE zero

\* A MountEntry as a JSON object, and back
MarshalEntry(e) ==
    << <<"Path", e.Path>>, <<"Type", e.Type>>, <<"UUID", e.UUID>>,
       <<"Options", e.Options>> >>
UnmarshalEntry(obj) ==
    [Path |-> JSONMember(obj, "Path", << >>),
     Type |-> JSONMember(obj, "Type", ""),
     UUID |-> JSONMember(obj, "UUID", 0),
     Options |-> JSONMember(obj, "Options", NoOptions)]

\* json.Marshal(table) as stored in Entry.Value, and json.Unmarshal of it
Marshal(entries) ==
    << <<"Entries", [i \in DOMAIN entries |-> MarshalEntry(entries[i])]>> >>
Unmarshal(raw) ==
    LET list == JSONMember(raw, "Entries", << >>)
    IN  [i \in DOMAIN list |-> UnmarshalEntry(list[i])]

\* defaultAuditTable()
defaultAuditTable == << >>

\* Mutant: a name already registered keeps its sink.
Register_KeepFirst(m, name, b) ==
    [n \in (DOMAIN m) \cup {name} |-> IF n \in DOMAIN m THEN m[n] ELSE b]

\* AuditBroker.Register: a.backends[name] = backendEntry{backend: b, ...}
Register(m, name, b) ==
    [n \in (DOMAIN m) \cup {name} |-> IF n = name THEN b ELSE m[n]]

\* AuditBroker.Deregister: delete(a.backends, name)
Deregister(m, name) ==
    [n \in (DOMAIN m) \ {name} |-> m[n]]

\* AuditBroker.IsRegistered
IsRegistered(name) == name \in DOMAIN backends

\* NewAuditBroker: an empty registry
NewAuditBroker == [n \in {} |-> Nil]

\* Mutant: the error of persistAudit is ignored.
AfterPersist_IgnoreError(ok) == "swap"

\* What the call does after persistAudit returned (ok = nil error)
AfterPersist(ok) == IF ok THEN "swap" ELSE "ret"

\* Mutant: the "found" test is missing.
AfterRemove_NoTest(found) == "persist"

\* disableAudit: "Ensure there was a match"
AfterRemove(found) == IF found THEN "persist" ELSE "ret"

NoEntry == [Path |-> << >>, Type |-> "", UUID |-> 0, Options |-> NoOptions]

(***************************************************************************)
(* The redactor (audit.Hash, audit.HashStructure), the JSON formatter and  *)
(* the file and syslog sinks.                                              *)
(*                                                                         *)
(* The caller's auth, request, response, HTTP request and tee writer are   *)
(* objects of a heap, passed by address (0 is the nil pointer).  A value   *)
(* inside request or response data carries its Go kind:                    *)
(*   [t |-> "string", v |-> s], [t |-> "int", v |-> n],                    *)
(*   [t |-> "slice", v |-> <<values>>], [t |-> "map", v |-> [key |-> value]]*)
(***************************************************************************)
Sinks == {"s1", "s2"}

\* hex.EncodeToString(sha1.Sum(v)) on the strings that occur
Sha1Hex ==
    "tok" :> "79bead8e6d65862a00cffaa12ccde1189ec34d29" @@
    "newtok" :> "aa8c591d777c459b530c2d08af6b64930f46a43d" @@
    "bar" :> "62cdb7020ff920e5aa642c3d4066950dd1f01f4d" @@
    "sekrit" :> "8d42e738c7adee551324955458b5e2c0b49ee655" @@
    "baz" :> "bbe960a25ea311d21d40669e93df2003ba9b90a2" @@
    "sid=1; lang=en" :> "9c47569a143e378ccfdb08094979e8f0fd9298ef" @@
    "{}" :> "bf21a9e8fbc5a3846fb05b4fa0859e0917b2202f" @@
    "Hello there" :> "726c76553e1a3fdea29134f36e6af2ea05ec5cce" @@
    "" :> "da39a3ee5e6b4b0d3255bfef95601890afd80709" @@
    "sha1:79bead8e6d65862a00cffaa12ccde1189ec34d29" :> "768de4d5ba6005c262b2d53bb6ff34ec8a303889" @@
    "sha1:aa8c591d777c459b530c2d08af6b64930f46a43d" :> "d42716dd28cb6a925fd37c034dd37e1ad3e9fd30" @@
    "sha1:62cdb7020ff920e5aa642c3d4066950dd1f01f4d" :> "4a04afe2f06540491b181b3f4bac43ebbd7cbc7c" @@
    "sha1:8d42e738c7adee551324955458b5e2c0b49ee655" :> "aa9df78d14df63f4fbfc8bf094198ea96123861a" @@
    "sha1:bbe960a25ea311d21d40669e93df2003ba9b90a2" :> "dcafc97e8198e3289420bec6d4deea3336fbf605" @@
    "sha1:9c47569a143e378ccfdb08094979e8f0fd9298ef" :> "0ecce9a286b3c694bfb62d170bf4c93718a28817" @@
    "sha1:bf21a9e8fbc5a3846fb05b4fa0859e0917b2202f" :> "d3b4267aec34f56302b00e12b965b435c9c95e04" @@
    "sha1:726c76553e1a3fdea29134f36e6af2ea05ec5cce" :> "8d0290591fff0218a67e77a81c0a3f9b9ee7f531" @@
    "sha1:da39a3ee5e6b4b0d3255bfef95601890afd80709" :> "ba9150d5769ae838d3eb47df50df0b91cc427639" @@
    "a" :> "86f7e437faa5a7fce15d1ddcb9eaeaea377667b8" @@
    "ab" :> "da23614e02469a0d7c7bd1bdab5c9c474b1904dc" @@
    "abc" :> "a9993e364706816aba3e25717850c26c9cd0d89d" @@
    "sha1:86f7e437faa5a7fce15d1ddcb9eaeaea377667b8" :> "624ece73ed92330cd0e85ada5589340af342114e" @@
    "sha1:da23614e02469a0d7c7bd1bdab5c9c474b1904dc" :> "3ed38ce9c0f990f84894fe6967f4695679249692" @@
    "sha1:a9993e364706816aba3e25717850c26c9cd0d89d" :> "104ca02f62148621a38c7dcc128d59deb5381ad0" @@
    "Hello " :> "9646ba13a4e8eabeca4f5259bfd7da41d368a1a6" @@
    "there" :> "490528f36debf7c15cea5e9a9d1ea024cf6b2921" @@
    "Hello Hello " :> "cc807f98e813496fdd70d8ae5fdfce8f7b6e3a9a" @@
    "thereHello " :> "b082b5200c0795fd68a763952ba99c9b1b0ba1d2" @@
    "therethere" :> "0d1a794659d083582cac39f34f0f79f266e48103" @@
    "Hello Hello Hello " :> "ff68e98562e39ee80ac47c8cf38d92108276895a" @@
    "Hello Hello there" :> "26cd7a23148750b4566133af636f461a2f176b75" @@
    "Hello thereHello " :> "5b5d698ca635fa6efec12e0cbd6b20d77623be13" @@
    "Hello therethere" :> "4de871b7bb0392642aac8bd4b0199bdc64370230" @@
    "thereHello Hello " :> "7380fe224991abf11af55c0431df413ce50acf67" @@
    "thereHello there" :> "b2932a49a3b85d3996f4212268ffc1d0420b7de3" @@
    "therethereHello " :> "87bc09f1ee51a9de1f359b8c44d07869297a95b1" @@
    "theretherethere" :> "10ce7a146bb097fc8e2e7b0addb00f1acb9b3f3e" @@
    "Hello Hello Hello Hello " :> "2e56d71bc7871c44f553f7fd2279e1df4341e88c" @@
    "Hello Hello Hello there" :> "697a0f3ddfef76ac418d9532b6d54309d412c289" @@
    "Hello Hello thereHello " :> "d5344eb345f5678ff798c0c9af8a8a69285135b6" @@
    "Hello Hello therethere" :> "7e31a99a3805ff5d8d3f0ec3c914803521773936" @@
    "Hello thereHello Hello " :> "02b025625fb21a4405901fcd0ef1abb3c4a3ecd3" @@
    "Hello thereHello there" :> "dced2e99c3b70abe294247b965025e0c35f40490" @@
    "Hello therethereHello " :> "b8afb72a1c69a952d09ae9df673ea1a17c45ee37" @@
    "Hello theretherethere" :> "40fba097218352f845de38ca10495de9f8797a05" @@
    "thereHello Hello Hello " :> "d0b3c4350b69debfdcdd1af78ab1cbc156ca11d9" @@
    "thereHello Hello there" :> "768802bcc14996abd4dfcc528fd8a29a271a3339" @@
    "thereHello thereHello " :> "3f47d51073f1db4a1fa57c2ecb9f67e1337965f0" @@
    "thereHello therethere" :> "b32cbc10de635e9fdff6d451c3d2dcd7ba932561" @@
    "therethereHello Hello " :> "f9dea3994ad31d20c72ef297c85a509fdd52f9ec" @@
    "therethereHello there" :> "d7abf46e4527f59635bdd458a48612bfd707028b" @@
    "theretherethereHello " :> "15c1dfdc192527414a506ff2147c38609cd01ef4" @@
    "theretheretherethere" :> "6896cd2cbcb4f0f450ca4d114cbccb5264ff86a0" @@
    "sha1:9646ba13a4e8eabeca4f5259bfd7da41d368a1a6" :> "ded8ae4180e62509eafc1079f07ee57afaa84715" @@
    "sha1:490528f36debf7c15cea5e9a9d1ea024cf6b2921" :> "9bd840782981a5676dd49fc1b2ea2699302e364c" @@
    "sha1:cc807f98e813496fdd70d8ae5fdfce8f7b6e3a9a" :> "86f50d44ff34230b4159b595d2cb3529dd8c90e8" @@
    "sha1:b082b5200c0795fd68a763952ba99c9b1b0ba1d2" :> "75d2b01f6a2a4af812f3f73ba1c3061e89fcef16" @@
    "sha1:0d1a794659d083582cac39f34f0f79f266e48103" :> "03bbac25256aed91989c22fdca31ec93e9617a49" @@
    "sha1:ff68e98562e39ee80ac47c8cf38d92108276895a" :> "8c524d94ce250d748c6571f24940fa83acbdb35f" @@
    "sha1:26cd7a23148750b4566133af636f461a2f176b75" :> "f4d7c2d5be6c178d024d99d8cc30997f5bea952e" @@
    "sha1:5b5d698ca635fa6efec12e0cbd6b20d77623be13" :> "bc813b219d9d11b5a3b0ad316b816559de00891d" @@
    "sha1:4de871b7bb0392642aac8bd4b0199bdc64370230" :> "edc3da0fbfef83fe3fa468f616c356e402619db3" @@
    "sha1:7380fe224991abf11af55c0431df413ce50acf67" :> "56a0de95e2fcaf94fd2640e81f511bf3df9b7005" @@
    "sha1:b2932a49a3b85d3996f4212268ffc1d0420b7de3" :> "bbeb1431055b9e1b71e0da7f3e19d37c662732b5" @@
    "sha1:87bc09f1ee51a9de1f359b8c44d07869297a95b1" :> "b356301f0edbe4089b35cfa2b1859cf81801140d" @@
    "sha1:10ce7a146bb097fc8e2e7b0addb00f1acb9b3f3e" :> "5cd91de2756dae83cb67fbcf52e86ef2b3dc9ad4" @@
    "sha1:2e56d71bc7871c44f553f7fd2279e1df4341e88c" :> "93ad567a9e7d592cc66ad2dba8711fb379406a8b" @@
    "sha1:697a0f3ddfef76ac418d9532b6d54309d412c289" :> "335a4aa3e5da739eed9b286234da1f06a65f74da" @@
    "sha1:d5344eb345f5678ff798c0c9af8a8a69285135b6" :> "4409d5f539fab9a8062c1dedf5361fc59399624b" @@
    "sha1:7e31a99a3805ff5d8d3f0ec3c914803521773936" :> "542dc661563001d376442e90d84730bfe33e11e8" @@
    "sha1:02b025625fb21a4405901fcd0ef1abb3c4a3ecd3" :> "688a2ea578dba4cfa66f23c203390fdb5f08d420" @@
    "sha1:dced2e99c3b70abe294247b965025e0c35f40490" :> "670c09d777449cca177410511a4378f3a28d64cd" @@
    "sha1:b8afb72a1c69a952d09ae9df673ea1a17c45ee37" :> "598c2471b3168c04474767288816996d578d2f60" @@
    "sha1:40fba097218352f845de38ca10495de9f8797a05" :> "670843e66999d1ad1019c4781b296486981c410c" @@
    "sha1:d0b3c4350b69debfdcdd1af78ab1cbc156ca11d9" :> "d53038015143c2824ee4c9f6f65859b86bc4b61c" @@
    "sha1:768802bcc14996abd4dfcc528fd8a29a271a3339" :> "7f5ab299217cbbf52c8b27b5e8e76d348c5e7f90" @@
    "sha1:3f47d51073f1db4a1fa57c2ecb9f67e1337965f0" :> "16c9f07e573a110d6f8734edff9313a3ef9af759" @@
    "sha1:b32cbc10de635e9fdff6d451c3d2dcd7ba932561" :> "b9104e46761e250900075db22b7aaebe467ba4bb" @@
    "sha1:f9dea3994ad31d20c72ef297c85a509fdd52f9ec" :> "848a36f9266eec7987433cb5f1ee086d3dd5d254" @@
    "sha1:d7abf46e4527f59635bdd458a48612bfd707028b" :> "605a56d790cb64f1836809aa969d92899ea5b89e" @@
    "sha1:15c1dfdc192527414a506ff2147c38609cd01ef4" :> "9c2f939146801da9f84140e5fdeb851a3db7feae" @@
    "sha1:6896cd2cbcb4f0f450ca4d114cbccb5264ff86a0" :> "ecb9c043f1fde72816970bd8703f36e8dd6db02a"

\* HashSHA1(salt): the callback Hash uses, fn := HashSHA1("")
HashSHA1(salt, v) == "sha1:" \o Sha1Hex[v \o salt]
fn(v) == HashSHA1("", v)

\* Mutant: only the strings directly under the top-level keys are hashed.
RECURSIVE HashStructure_TopLevelOnly(_)
HashStructure_TopLevelOnly(v) ==
    IF v.t = "string" THEN [v EXCEPT !.v = fn(@)]
    ELSE IF v.t = "map"
         THEN [v EXCEPT !.v = [k \in DOMAIN @ |->
                                  IF @[k].t = "string" THEN [@[k] EXCEPT !.v = fn(@)]
                                  ELSE @[k]]]
         ELSE v

\* Mutant: a string that is a hash already is left as it is.
RECURSIVE HashStructure_SkipHashed(_)
HashStructure_SkipHashed(v) ==
    IF v.t = "string"
    THEN IF v.v \in {fn(x) : x \in {"bar", "baz", "tok"}} THEN v ELSE [v EXCEPT !.v = fn(@)]
    ELSE IF v.t = "slice"
         THEN [v EXCEPT !.v = [i \in DOMAIN @ |-> HashStructure_SkipHashed(@[i])]]
    ELSE IF v.t = "map"
         THEN [v EXCEPT !.v = [k \in DOMAIN @ |-> HashStructure_SkipHashed(@[k])]]
    ELSE v

\* HashStructure(s, fn): a copy of s in which the hashWalker has replaced
\* every string it reaches (map values, slice elements, at any depth) by its
\* hash; map keys and values of other kinds are left alone.
RECURSIVE HashStructure(_)
HashStructure(v) ==
    IF v.t = "string" THEN [v EXCEPT !.v = fn(@)]
    ELSE IF v.t = "slice" THEN [v EXCEPT !.v = [i \in DOMAIN @ |-> HashStructure(@[i])]]
    ELSE IF v.t = "map" THEN [v EXCEPT !.v = [k \in DOMAIN @ |-> HashStructure(@[k])]]
    ELSE v

\* Hash, case *logical.Auth
HashAuth(a) ==
    [a EXCEPT !.ClientToken = IF @ # "" THEN fn(@) ELSE @]

\* Hash, case *logical.Request
HashRequest(r) ==
    [r EXCEPT !.Data = HashStructure(@)]

\* Hash, case *logical.Response
HashResponse(r) ==
    [r EXCEPT !.Auth = IF r.HasAuth THEN HashAuth(@) ELSE @,
              !.Data = HashStructure(@)]

\* Mutant: every header value is hashed.
HashHeader_All(h) ==
    [n \in DOMAIN h |-> [i \in DOMAIN h[n] |-> fn(h[n][i])]]

\* Hash, case http.Header: the values under "x-vault-token" and "cookie" are
\* replaced in the map itself
HashHeader(h) ==
    [n \in DOMAIN h |->
        IF n \in {"x-vault-token", "cookie"}
        THEN [i \in DOMAIN h[n] |-> fn(h[n][i])]
        ELSE h[n]]

\* Hash, case *http.Request
HashHTTPRequest(r) ==
    [r EXCEPT !.Body = fn(@), !.Header = HashHeader(@)]

\* Hash, case *logical.TeeResponseWriter
HashTeeResponseWriter(t) ==
    [t EXCEPT !.RawHeader = HashHeader(@), !.Body = fn(@)]

\* Hash(raw): the object at address p is modified in place; a nil pointer is
\* left alone
Hash(h, p, type) ==
    IF p = 0 THEN h
    ELSE [h EXCEPT ![p] =
            IF type = "auth" THEN HashAuth(@)
            ELSE IF type = "request" THEN HashRequest(@)
            ELSE IF type = "response" THEN HashResponse(@)
            ELSE IF type = "http.Request" THEN HashHTTPRequest(@)
            ELSE HashTeeResponseWriter(@)]

\* Mutant: the "copy" is the caller's own object.
Copy_Alias(h, p) == [heap |-> h, ptr |-> p]

\* copystructure.Copy of a pointer: a new object with the same contents
Copy(h, p) ==
    IF p = 0 THEN [heap |-> h, ptr |-> 0]
    ELSE [heap |-> Append(h, h[p]), ptr |-> Len(h) + 1]

\* strings.ToLower on header names
ToLower ==
    "X-Vault-Token" :> "x-vault-token" @@ "Cookie" :> "cookie" @@
    "X-Other" :> "x-other" @@ "X-Foo" :> "x-foo" @@
    "x-vault-token" :> "x-vault-token" @@ "cookie" :> "cookie" @@
    "x-other" :> "x-other" @@ "x-foo" :> "x-foo"

\* strings.Join(values, sep)
RECURSIVE Join(_, _)
Join(values, sep) ==
    IF values = << >> THEN ""
    ELSE IF Len(values) = 1 THEN values[1]
    ELSE values[1] \o sep \o Join(Tail(values), sep)

\* The joined values of the names in names, one per name
RECURSIVE JoinedOf(_, _)
JoinedOf(h, names) ==
    IF names = {} THEN << >>
    ELSE LET n == CHOOSE x \in names : TRUE
         IN  <<Join(h[n], "; ")>> \o JoinedOf(h, names \ {n})

\* sanitizeHeader: a new map from the lower-cased names to the "; "-joined
\* values
sanitizeHeader(h) ==
    [n \in {ToLower[k] : k \in DOMAIN h} |->
        JoinedOf(h, {k \in DOMAIN h : ToLower[k] = n})]

\* FormatJSON.formatHTTPHeader
formatHTTPHeader(h) ==
    [n \in {ToLower[k] : k \in DOMAIN h} |->
        Join(h[CHOOSE k \in DOMAIN h : ToLower[k] = n], "; ")]

\* new(logical.Auth), new(logical.Response)
ZeroAuth == [ClientToken |-> "", DisplayName |-> ""]
NoData == [t |-> "map", v |-> [k \in {} |-> 0]]
ZeroResponse == [HasAuth |-> FALSE, Auth |-> ZeroAuth, Data |-> NoData, Redirect |-> ""]

\* JSONAuth / JSONRequest as the formatter fills them; a client_token that is
\* empty is omitted from the encoding
JSONAuth(a, withToken) ==
    IF withToken /\ a.ClientToken # ""
    THEN [client_token |-> a.ClientToken, display_name |-> a.DisplayName]
    ELSE [display_name |-> a.DisplayName]
JSONRequest(r) == [operation |-> r.Operation, path |-> r.Path, data |-> r.Data]

\* FormatJSON.FormatRequest
FormatRequest(h, auth, req) ==
    LET a == IF auth = 0 THEN ZeroAuth ELSE h[auth]
    IN  [type |-> "request",
         auth |-> JSONAuth(a, FALSE),
         request |-> JSONRequest(h[req])]

\* FormatJSON.FormatResponse: the entry's auth is filled with policies and
\* metadata only, its error field is never set
FormatResponse(h, auth, req, resp, err) ==
    LET r == IF resp = 0 THEN ZeroResponse ELSE h[resp]
    IN  [type |-> "response",
         error |-> "",
         auth |-> [display_name |-> ""],
         request |-> JSONRequest(h[req]),
         response |-> [auth |-> JSONAuth(IF r.HasAuth THEN r.Auth ELSE ZeroAuth, TRUE),
                       data |-> r.Data,
                       redirect |-> r.Redirect]]

\* FormatJSON.FormatHTTPRequest; res.Header() is the header map of the
\* writer the tee wraps
FormatHTTPRequest(req, res) ==
    [type |-> "http",
     http |-> [request |-> [body |-> req.Body,
                            headers |-> formatHTTPHeader(req.Header),
                            method |-> req.Method,
                            url |-> req.URL],
               response |-> [body |-> res.Body,
                             headers |-> formatHTTPHeader(res.wHeader),
                             status |-> res.StatusCode]]]

\* The Backend the file factory and the syslog factory build from the
\* options; f tells whether b.f is an open file
FileBackend(conf) ==
    [Driver |-> "file", LogRaw |-> Factory(conf).LogRaw,
     LogHTTP |-> Factory(conf).LogHTTP, f |-> FALSE]
SyslogBackend(conf) ==
    [Driver |-> "syslog", LogRaw |-> BoolOption(conf, "log_raw").b,
     LogHTTP |-> BoolOption(conf, "log_http").b, f |-> FALSE]

\* Options the sinks are enabled with
SinkOptions ==
    { [path |-> "audit.log"],
      [path |-> "audit.log", log_raw |-> "true"],
      [path |-> "audit.log", log_http |-> "true"],
      [path |-> "audit.log", log_raw |-> "1", log_http |-> "T"] }
SinkBackends ==
    {FileBackend(conf) : conf \in SinkOptions} \cup
    {SyslogBackend(conf) : conf \in SinkOptions}
DefaultBackend == FileBackend([path |-> "audit.log"])

\* Backend.open of the file sink: nothing to do when b.f is set; otherwise
\* MkdirAll and OpenFile succeed (ok) or fail
open(b, ok) ==
    IF b.f THEN [f |-> TRUE, err |-> Nil]
    ELSE IF ok THEN [f |-> TRUE, err |-> Nil]
    ELSE [f |-> FALSE, err |-> "open failed"]

\* What a sink call leaves behind: the heap, b.f, the entries written and
\* the error returned
SinkResult(h, f, out, err) == [heap |-> h, f |-> f, out |-> out, err |-> err]

\* The entry goes to the file or to syslog, or the write fails
Emit(h, f, line, writeOK) ==
    IF writeOK THEN SinkResult(h, f, <<line>>, Nil)
    ELSE SinkResult(h, f, << >>, "write failed")

\* Backend.LogRequest of the file sink (which opens its file first) and of
\* the syslog sink
Backend_LogRequest(b, h, auth, req, openOK, writeOK) ==
    IF b.LogHTTP THEN SinkResult(h, b.f, << >>, Nil)
    ELSE LET o == IF b.Driver = "file" THEN open(b, openOK) ELSE [f |-> b.f, err |-> Nil] IN
         IF o.err # Nil THEN SinkResult(h, o.f, << >>, o.err)
         ELSE IF b.LogRaw THEN Emit(h, o.f, FormatRequest(h, auth, req), writeOK)
         ELSE LET cpAuth == Copy(h, auth)
                  cpReq  == Copy(cpAuth.heap, req)
                  hashed == Hash(Hash(cpReq.heap, cpAuth.ptr, "auth"), cpReq.ptr, "request")
              IN  Emit(hashed, o.f, FormatRequest(hashed, cpAuth.ptr, cpReq.ptr), writeOK)

\* Backend.LogResponse of the file sink and of the syslog sink
Backend_LogResponse(b, h, auth, req, resp, err, openOK, writeOK) ==
    IF b.LogHTTP THEN SinkResult(h, b.f, << >>, Nil)
    ELSE LET o == IF b.Driver = "file" THEN open(b, openOK) ELSE [f |-> b.f, err |-> Nil] IN
         IF o.err # Nil THEN SinkResult(h, o.f, << >>, o.err)
         ELSE IF b.LogRaw THEN Emit(h, o.f, FormatResponse(h, auth, req, resp, err), writeOK)
         ELSE LET cpAuth == Copy(h, auth)
                  cpReq  == Copy(cpAuth.heap, req)
                  cpResp == Copy(cpReq.heap, resp)
                  hashed == Hash(Hash(Hash(cpResp.heap, cpAuth.ptr, "auth"),
                                      cpReq.ptr, "request"),
                                 cpResp.ptr, "response")
              IN  Emit(hashed, o.f,
                       FormatResponse(hashed, cpAuth.ptr, cpReq.ptr, cpResp.ptr, err),
                       writeOK)

\* Backend.LogHTTPRequest: the file sink opens its file and then tests
\* log_http, the syslog sink tests log_http first; both assign the sanitized
\* headers to req.Header and resp.RawHeader and hash req and resp themselves
Backend_LogHTTPRequest(b, h, req, resp, openOK, writeOK) ==
    LET o == IF b.Driver = "file" THEN open(b, openOK) ELSE [f |-> b.f, err |-> Nil] IN
    IF o.err # Nil THEN SinkResult(h, o.f, << >>, o.err)
    ELSE IF ~b.LogHTTP THEN SinkResult(h, o.f, << >>, Nil)
    ELSE LET sanitized == [h EXCEPT ![req].Header = sanitizeHeader(@),
                                    ![resp].RawHeader = sanitizeHeader(@)]
             hashed == IF b.LogRaw THEN sanitized
                       ELSE Hash(Hash(sanitized, req, "http.Request"),
                                 resp, "TeeResponseWriter")
         IN  Emit(hashed, o.f, FormatHTTPRequest(hashed[req], hashed[resp]), writeOK)

(***************************************************************************)
(* The values callers pass                                                 *)
(***************************************************************************)
Str(s) == [t |-> "string", v |-> s]
Num(n) == [t |-> "int", v |-> n]

AuthValues == { [ClientToken |-> "tok", DisplayName |-> "root"] }

\* Request data: flat, and with a nested map and a slice
RequestData ==
    { [t |-> "map", v |-> [password |-> Str("bar"), ttl |-> Num(3600)]],
      [t |-> "map", v |-> [creds |-> [t |-> "map", v |-> [key |-> Str("bar")]],
                           tags |-> [t |-> "slice", v |-> <<Str("baz"), Num(7)>>]]] }

RequestValues ==
    { [Operation |-> "write", Path |-> "secret/foo", Data |-> d] : d \in RequestData }

ResponseValues ==
    { [HasAuth |-> TRUE,
       Auth |-> [ClientToken |-> "newtok", DisplayName |-> "user"],
       Data |-> [t |-> "map", v |-> [value |-> Str("sekrit")]],
       Redirect |-> ""],
      [HasAuth |-> FALSE,
       Auth |-> ZeroAuth,
       Data |-> [t |-> "map", v |-> [keys |-> [t |-> "slice", v |-> <<Str("bar")>>]]],
       Redirect |-> ""] }

\* HTTP requests as the tee reader leaves them after the handler
HTTPRequestValues ==
    { [Method |-> "PUT", URL |-> "/v1/secret/foo", Body |-> "{}",
       Header |-> ("X-Vault-Token" :> <<"tok">> @@ "X-Other" :> <<"tok">>)],
      [Method |-> "GET", URL |-> "/v1/sys/health", Body |-> "",
       Header |-> ("Cookie" :> <<"sid=1", "lang=en">>)] }

\* The tee writer after the handler of TestTeeResponseWriter
TeeValues ==
    { [StatusCode |-> 200, Body |-> "Hello there",
       RawHeader |-> ("X-Foo" :> <<"bar">>),
       wHeader |-> ("X-Foo" :> <<"bar">>)] }

NoCall == [called |-> FALSE]
NoArgs == [auth |-> 0, req |-> 0, resp |-> 0, err |-> Nil]

\* No fan-out over the sinks is in progress.
InitSinkIdle ==
    /\ heap = << >>
    /\ skind = "none"
    /\ sargs = NoArgs
    /\ sorig = << >>
    /\ visited = << >>
    /\ sret = [s \in Sinks |-> NoCall]
    /\ scount = 0

(***************************************************************************)
(* Initial state: an unsealed core whose loadAudits found no table, so     *)
(* installed and persisted the default one, and whose setupAudits built an *)
(* empty broker.  No dispatcher is active.                                 *)
(***************************************************************************)
InitCore ==
    /\ audit = 1
    /\ Entries = defaultAuditTable
    /\ mutex = << FALSE >>
    /\ barrier = Marshal(defaultAuditTable)
    /\ nextUUID = 1
    /\ calls = 0
    /\ fatal = FALSE
    /\ pc = [p \in Procs |-> "idle"]
    /\ op = [p \in Procs |-> "none"]
    /\ entry = [p \in Procs |-> NoEntry]
    /\ lockTbl = [p \in Procs |-> 0]
    /\ deferTbl = [p \in Procs |-> 0]
    /\ newTable = [p \in Procs |-> << >>]
    /\ result = [p \in Procs |-> "none"]
    /\ didPut = [p \in Procs |-> FALSE]
    /\ didSwap = [p \in Procs |-> FALSE]
    /\ didReg = [p \in Procs |-> FALSE]

InitBrokerIdle ==
    /\ dpc = [d \in Dispatchers |-> "idle"]
    /\ dkind = [d \in Dispatchers |-> "none"]
    /\ dargs = [d \in Dispatchers |-> Nil]
    /\ dsnap = [d \in Dispatchers |-> << >>]
    /\ dtodo = [d \in Dispatchers |-> {}]
    /\ dany = [d \in Dispatchers |-> FALSE]
    /\ dfail = [d \in Dispatchers |-> 0]
    /\ derr = [d \in Dispatchers |-> Nil]
    /\ dlog = [d \in Dispatchers |-> << >>]
    /\ dres = [d \in Dispatchers |-> "none"]
    /\ oplog = [d \in Dispatchers |-> << >>]
    /\ dcount = 0

\* No second core has been started.
InitSecondCore ==
    /\ c2pc = "sealed"
    /\ c2Entries = << >>
    /\ c2backends = NewAuditBroker

\* No header map is being sanitized on its own.
InitHeaderIdle ==
    /\ hpc = "idle"
    /\ hgiven = << >>
    /\ newHeader = << >>
    /\ header = << >>

\* No exchange is being served step by step.
InitTeeIdle ==
    /\ tpc = "idle"
    /\ tee = Nil
    /\ body = Nil
    /\ tcalls = << >>
    /\ thandler = [invoked |-> 0, returned |-> 0]
    /\ tlog = << >>

\* HashStructure is not being called on its own.
InitHashIdle ==
    /\ xpc = "idle"
    /\ xheap = << >>
    /\ xorig = Nil
    /\ xcb = {}
    /\ xret = Nil

InitOpenIdle ==
    /\ opc = [g \in {} |-> "idle"]
    /\ bf = 0
    /\ opened = 0
    /\ owritten = << >>
    /\ ologs = 0

InitServeIdle ==
    /\ vpc = "idle"
    /\ varrived = NewAuditBroker
    /\ vreturned = NewAuditBroker
    /\ vsnap = NewAuditBroker
    /\ vtodo = {}
    /\ vcalled = << >>
    /\ vregs = 0

InitUnitIdle ==
    /\ InitHeaderIdle
    /\ InitTeeIdle
    /\ InitHashIdle
    /\ InitOpenIdle
    /\ InitServeIdle

\* No HTTP exchange is in progress.
InitHTTPIdle ==
    /\ hscript = [d \in Dispatchers |-> << >>]
    /\ written = [d \in Dispatchers |-> Nil]

Init ==
    /\ InitCore
    /\ backends = NewAuditBroker
    /\ InitBrokerIdle
    /\ InitHTTPIdle
    /\ InitUnitIdle
    /\ InitSinkIdle
    /\ sinkB = [s \in Sinks |-> DefaultBackend]
    /\ c1pc = "ready"
    /\ InitSecondCore

(***************************************************************************)
(* enableAudit / disableAudit, one action per access to shared memory.     *)
(* The mutex is the one embedded in the MountTable c.audit points to, so   *)
(* the receiver of Lock() and of the deferred Unlock() is whatever c.audit *)
(* holds when each expression is evaluated.                                *)
(***************************************************************************)
\* A goroutine enters enableAudit(entry) or disableAudit(path) and evaluates
\* the receiver of c.audit.Lock().
Call(p) ==
    /\ ~fatal
    /\ pc[p] = "idle"
    /\ calls < MaxCalls
    /\ \/ \E e \in EnableInputs :
             /\ op' = [op EXCEPT ![p] = "enable"]
             /\ entry' = [entry EXCEPT ![p] = [Path |-> e.Path, Type |-> e.Type, UUID |-> 0,
                                                  Options |-> e.Options]]
       \/ \E path \in DisableInputs :
             /\ op' = [op EXCEPT ![p] = "disable"]
             /\ entry' = [entry EXCEPT ![p] = [Path |-> path, Type |-> "", UUID |-> 0,
                                                  Options |-> NoOptions]]
    /\ calls' = calls + 1
    /\ lockTbl' = [lockTbl EXCEPT ![p] = audit]
    /\ pc' = [pc EXCEPT ![p] = "lock"]
    /\ UNCHANGED <<audit, Entries, mutex, barrier, nextUUID, fatal, deferTbl, newTable,
                   result, didPut, didSwap, didReg, backends, brokerVars, moreVars>>

\* c.audit.Lock() returns: the mutex of the table read at the call is free.
Lock(p) ==
    /\ ~fatal
    /\ pc[p] = "lock"
    /\ ~mutex[lockTbl[p]]
    /\ mutex' = [mutex EXCEPT ![lockTbl[p]] = TRUE]
    /\ pc' = [pc EXCEPT ![p] = "defer"]
    /\ UNCHANGED <<audit, Entries, barrier, nextUUID, calls, fatal, op, entry, lockTbl,
                   deferTbl, newTable, result, didPut, didSwap, didReg,
                   backends, brokerVars, moreVars>>

\* defer c.audit.Unlock(): the receiver is evaluated now.
Defer(p) ==
    /\ ~fatal
    /\ pc[p] = "defer"
    /\ deferTbl' = [deferTbl EXCEPT ![p] = audit]
    /\ pc' = [pc EXCEPT ![p] = "check"]
    /\ UNCHANGED <<audit, Entries, mutex, barrier, nextUUID, calls, fatal, op, entry,
                   lockTbl, newTable, result, didPut, didSwap, didReg,
                   backends, brokerVars, moreVars>>

\* enableAudit from the path normalisation to generateUUID().
enableAudit_Check(p) ==
    /\ ~fatal
    /\ pc[p] = "check"
    /\ op[p] = "enable"
    /\ LET path == EnsureSlash(entry[p].Path)
           err  == IF path = Slash THEN "backend path must be specified"
                   ELSE IF PathInUse(Entries, path) THEN "path already in use"
                   ELSE newAuditBackend(entry[p].Type, entry[p].Options)
       IN  IF err = "ok"
           THEN /\ entry' = [entry EXCEPT ![p].Path = path, ![p].UUID = nextUUID]
                /\ nextUUID' = nextUUID + 1
                /\ pc' = [pc EXCEPT ![p] = "clone"]
                /\ UNCHANGED result
           ELSE /\ entry' = [entry EXCEPT ![p].Path = path]
                /\ result' = [result EXCEPT ![p] = err]
                /\ pc' = [pc EXCEPT ![p] = "ret"]
                /\ UNCHANGED nextUUID
    /\ UNCHANGED <<audit, Entries, mutex, barrier, calls, fatal, op, lockTbl, deferTbl,
                   newTable, didPut, didSwap, didReg, backends, brokerVars, moreVars>>

\* newTable := c.audit.Clone(); newTable.Entries = append(newTable.Entries, entry)
enableAudit_Clone(p) ==
    /\ ~fatal
    /\ pc[p] = "clone"
    /\ newTable' = [newTable EXCEPT ![p] = Append(Clone(Entries), entry[p])]
    /\ pc' = [pc EXCEPT ![p] = "persist"]
    /\ UNCHANGED <<audit, Entries, mutex, barrier, nextUUID, calls, fatal, op, entry,
                   lockTbl, deferTbl, result, didPut, didSwap, didReg,
                   backends, brokerVars, moreVars>>

\* disableAudit from the path normalisation to the "no matching backend" test.
disableAudit_Check(p) ==
    /\ ~fatal
    /\ pc[p] = "check"
    /\ op[p] = "disable"
    /\ LET path == EnsureSlash(entry[p].Path)
           r    == Remove(Clone(Entries), path)
           next == AfterRemove(r.found)
       IN  /\ entry' = [entry EXCEPT ![p].Path = path]
           /\ pc' = [pc EXCEPT ![p] = next]
           /\ IF next = "ret"
              THEN /\ result' = [result EXCEPT ![p] = "no matching backend"]
                   /\ UNCHANGED newTable
              ELSE /\ newTable' = [newTable EXCEPT ![p] = r.Entries]
                   /\ UNCHANGED result
    /\ UNCHANGED <<audit, Entries, mutex, barrier, nextUUID, calls, fatal, op, lockTbl,
                   deferTbl, didPut, didSwap, didReg, backends, brokerVars, moreVars>>

\* c.persistAudit(newTable): barrier.Put either stores the marshalled table
\* or fails and stores nothing.
persistAudit(p) ==
    /\ ~fatal
    /\ pc[p] = "persist"
    /\ \E ok \in BOOLEAN :
          /\ pc' = [pc EXCEPT ![p] = AfterPersist(ok)]
          /\ IF ok
             THEN /\ barrier' = Marshal(newTable[p])
                  /\ didPut' = [didPut EXCEPT ![p] = TRUE]
                  /\ UNCHANGED result
             ELSE /\ result' = [result EXCEPT ![p] = "failed to update audit table"]
                  /\ UNCHANGED <<barrier, didPut>>
    /\ UNCHANGED <<audit, Entries, mutex, nextUUID, calls, fatal, op, entry, lockTbl,
                   deferTbl, newTable, didSwap, didReg, backends, brokerVars, moreVars>>

\* c.audit = newTable: the clone, with a mutex of its own, becomes the table.
Swap(p) ==
    /\ ~fatal
    /\ pc[p] = "swap"
    /\ Entries' = newTable[p]
    /\ mutex' = Append(mutex, FALSE)
    /\ audit' = Len(mutex) + 1
    /\ didSwap' = [didSwap EXCEPT ![p] = TRUE]
    /\ pc' = [pc EXCEPT ![p] = IF op[p] = "enable" THEN "register" ELSE "deregister"]
    /\ UNCHANGED <<barrier, nextUUID, calls, fatal, op, entry, lockTbl, deferTbl,
                   newTable, result, didPut, didReg, backends, brokerVars, moreVars>>

\* c.auditBroker.Register(entry.Path, backend, view); return nil
enableAudit_Register(p) ==
    /\ ~fatal
    /\ pc[p] = "register"
    /\ backends' = Register(backends, entry[p].Path,
                          [Type |-> entry[p].Type, View |-> entry[p].UUID])
    /\ didReg' = [didReg EXCEPT ![p] = TRUE]
    /\ result' = [result EXCEPT ![p] = "ok"]
    /\ pc' = [pc EXCEPT ![p] = "ret"]
    /\ UNCHANGED <<audit, Entries, mutex, barrier, nextUUID, calls, fatal, op, entry,
                   lockTbl, deferTbl, newTable, didPut, didSwap, brokerVars, moreVars>>

\* c.auditBroker.Deregister(path); return nil
disableAudit_Deregister(p) ==
    /\ ~fatal
    /\ pc[p] = "deregister"
    /\ backends' = Deregister(backends, entry[p].Path)
    /\ didReg' = [didReg EXCEPT ![p] = TRUE]
    /\ result' = [result EXCEPT ![p] = "ok"]
    /\ pc' = [pc EXCEPT ![p] = "ret"]
    /\ UNCHANGED <<audit, Entries, mutex, barrier, nextUUID, calls, fatal, op, entry,
                   lockTbl, deferTbl, newTable, didPut, didSwap, brokerVars, moreVars>>

\* The function returns and the deferred Unlock() runs on the table read by
\* the defer statement.  Unlocking a mutex that is not locked is a fatal
\* error of the Go runtime: the process dies.
Return(p) ==
    /\ ~fatal
    /\ pc[p] = "ret"
    /\ IF mutex[deferTbl[p]]
       THEN /\ mutex' = [mutex EXCEPT ![deferTbl[p]] = FALSE]
            /\ UNCHANGED fatal
       ELSE /\ fatal' = TRUE
            /\ UNCHANGED mutex
    /\ pc' = [pc EXCEPT ![p] = "idle"]
    /\ op' = [op EXCEPT ![p] = "none"]
    /\ entry' = [entry EXCEPT ![p] = NoEntry]
    /\ lockTbl' = [lockTbl EXCEPT ![p] = 0]
    /\ deferTbl' = [deferTbl EXCEPT ![p] = 0]
    /\ newTable' = [newTable EXCEPT ![p] = << >>]
    /\ result' = [result EXCEPT ![p] = "none"]
    /\ didPut' = [didPut EXCEPT ![p] = FALSE]
    /\ didSwap' = [didSwap EXCEPT ![p] = FALSE]
    /\ didReg' = [didReg EXCEPT ![p] = FALSE]
    /\ UNCHANGED <<audit, Entries, barrier, nextUUID, calls, backends, brokerVars, moreVars>>

Next ==
    \E p \in Procs :
        \/ Call(p)
        \/ Lock(p)
        \/ Defer(p)
        \/ enableAudit_Check(p)
        \/ enableAudit_Clone(p)
        \/ disableAudit_Check(p)
        \/ persistAudit(p)
        \/ Swap(p)
        \/ enableAudit_Register(p)
        \/ disableAudit_Deregister(p)
        \/ Return(p)

Spec == Init /\ [][Next]_vars


(***************************************************************************)
(* The AuditBroker: registry and fan-out.                                  *)
(*                                                                         *)
(* A dispatcher goroutine runs LogRequest, LogResponse or ServeHTTP.  The  *)
(* read lock is held from RLock to the return; Register and Deregister     *)
(* take the write lock, so they run only while no dispatcher holds the     *)
(* read lock.  What a sink does with a call is its own business: it either *)
(* returns nil or an error.                                                *)
(***************************************************************************)
SinkNames == {"foo", "bar"}            \* names sinks are registered under
SinkInstances == {"a1", "a2"}          \* live sink instances
Kinds == {"request", "response", "http"}
RespErrs == {Nil, "permission denied"} \* the err argument of LogResponse

\* Dispatchers holding a.l.RLock()
Readers == {d \in Dispatchers : dpc[d] = "loop"}

\* The arguments one sink call receives: the caller's pointers, and for
\* LogResponse the err in scope on the right of
\* "err := be.backend.LogResponse(auth, req, resp, err)", which is the
\* parameter (the err declared by := is in scope only after the statement).
SinkArgs(kind, args, lastErr) ==
    [ptr |-> args.ptr, err |-> IF kind = "response" THEN args.err ELSE Nil]

\* Mutant: the loop stops at the first sink that fails.
RangeRest_StopAtFailure(todo, name, err) ==
    IF err # Nil THEN {} ELSE todo \ {name}

\* The names the range loop still has to visit after visiting name, whose
\* sink returned err: the loop has no break.
RangeRest(todo, name, err) == todo \ {name}

\* Mutant: the test forgets the empty registry.
AllSinksFailed_NoLenTest(anyLogged, n) == ~anyLogged

\* "if !anyLogged && len(a.backends) > 0": the value LogRequest / LogResponse
\* return; ServeHTTP prints the message and returns nothing.
AllSinksFailed(anyLogged, n) == ~anyLogged /\ n > 0

FanOutError(kind) ==
    IF kind = "request" THEN "no audit backend succeeded in logging the request"
    ELSE IF kind = "response" THEN "no audit backend succeeded in logging the response"
    ELSE "no audit backend succeeded in logging the http request"

\* b.Register(name, sink, view) called on the broker
Broker_Register(name, b) ==
    /\ Readers = {}
    /\ backends' = Register(backends, name, b)
    /\ UNCHANGED <<coreVars, brokerVars, moreVars>>

\* Mutant: Deregister does not take the write lock.
Broker_Deregister_NoLock(name) ==
    /\ backends' = Deregister(backends, name)
    /\ UNCHANGED <<coreVars, brokerVars, moreVars>>

\* b.Deregister(name) called on the broker
Broker_Deregister(name) ==
    /\ Readers = {}
    /\ backends' = Deregister(backends, name)
    /\ UNCHANGED <<coreVars, brokerVars, moreVars>>

\* A goroutine enters LogRequest, LogResponse or ServeHTTP with its arguments.
Dispatch_Call(d) ==
    /\ dpc[d] = "idle"
    /\ dcount < MaxDispatch
    /\ dcount' = dcount + 1
    /\ \E k \in Kinds, e \in RespErrs :
          /\ k # "response" => e = Nil
          /\ dkind' = [dkind EXCEPT ![d] = k]
          /\ dargs' = [dargs EXCEPT ![d] = [ptr |-> dcount + 1, err |-> e]]
          /\ dpc' = [dpc EXCEPT ![d] = IF k = "http" THEN "handler" ELSE "rlock"]
    /\ UNCHANGED <<coreVars, moreVars, backends, dsnap, dtodo, dany, dfail, derr, dlog, dres, oplog>>

\* The calls a downstream handler makes on the http.ResponseWriter it is given
HandlerScripts ==
    { << [op |-> "WriteHeader", code |-> 200],
         [op |-> "Header.Add", name |-> "X-Foo", value |-> "bar"],
         [op |-> "Write", bytes |-> "Hello there"] >>,
      << [op |-> "Header.Add", name |-> "X-Foo", value |-> "bar"],
         [op |-> "WriteHeader", code |-> 403] >> }

\* http.Header.Add on a header map (name -> sequence of values)
HeaderAdd(h, name, value) ==
    [n \in (DOMAIN h) \cup {name} |->
        IF n = name THEN (IF name \in DOMAIN h THEN Append(h[name], value) ELSE <<value>>)
        ELSE h[n]]

NoHeader == [n \in {} |-> << >>]

\* The response writer of the client: nothing written yet
NewResponseWriter ==
    [Body |-> << >>, StatusCode |-> 0, WroteHeader |-> FALSE, header |-> NoHeader]

\* Mutant: the writer keeps the first status code it is given.
WriterApply_FirstCodeOnly(w, c) ==
    IF c.op = "Header.Add" THEN [w EXCEPT !.header = HeaderAdd(@, c.name, c.value)]
    ELSE IF c.op = "WriteHeader"
         THEN [w EXCEPT !.StatusCode = IF w.WroteHeader THEN @ ELSE c.code,
                        !.WroteHeader = TRUE]
         ELSE [w EXCEPT !.Body = Append(@, c.bytes)]

\* One call of the handler arriving at the response writer w
WriterApply(w, c) ==
    IF c.op = "Header.Add" THEN [w EXCEPT !.header = HeaderAdd(@, c.name, c.value)]
    ELSE IF c.op = "WriteHeader" THEN [w EXCEPT !.StatusCode = c.code, !.WroteHeader = TRUE]
    ELSE [w EXCEPT !.Body = Append(@, c.bytes)]

\* logical.NewTeeResponseWriter(w)
NewTeeResponseWriter(w) ==
    [w |-> w, StatusCode |-> 200, WroteHeader |-> FALSE, RawHeader |-> NoHeader,
     Body |-> << >>]

\* Mutant: the tee keeps what the handler writes and forwards nothing.
TeeApply_NoForward(t, c) ==
    IF c.op = "Header.Add" THEN t
    ELSE IF c.op = "WriteHeader" THEN [t EXCEPT !.StatusCode = c.code]
    ELSE [t EXCEPT !.Body = Append(@, c.bytes)]

\* One call of the handler on the TeeResponseWriter t: Header() is the header
\* map of the wrapped writer; WriteHeader records the code and the headers and
\* forwards; Write mirrors the bytes and forwards.
TeeApply(t, c) ==
    IF c.op = "Header.Add" THEN [t EXCEPT !.w = WriterApply(@, c)]
    ELSE IF c.op = "WriteHeader"
         THEN [t EXCEPT !.StatusCode = c.code,
                        !.RawHeader = IF t.WroteHeader THEN @ ELSE t.w.header,
                        !.WroteHeader = TRUE,
                        !.w = WriterApply(@, c)]
         ELSE [t EXCEPT !.Body = Append(@, c.bytes),
                        !.RawHeader = IF t.WroteHeader THEN @ ELSE t.w.header,
                        !.WroteHeader = TRUE,
                        !.w = WriterApply(@, c)]

\* The handler runs its script on the tee
RECURSIVE RunOnTee(_, _)
RunOnTee(t, script) ==
    IF script = << >> THEN t ELSE RunOnTee(TeeApply(t, Head(script)), Tail(script))

\* The handler runs its script on a response writer directly
RECURSIVE RunOnWriter(_, _)
RunOnWriter(w, script) ==
    IF script = << >> THEN w ELSE RunOnWriter(WriterApply(w, Head(script)), Tail(script))

\* ServeHTTP: tee := NewTeeResponseWriter(w); h.ServeHTTP(tee, r) runs and
\* returns; tee.Duration is set.
ServeHTTP_Handler(d) ==
    /\ dpc[d] = "handler"
    /\ dpc' = [dpc EXCEPT ![d] = "rlock"]
    /\ \E script \in HandlerScripts :
          /\ hscript' = [hscript EXCEPT ![d] = script]
          /\ written' = [written EXCEPT ![d] =
                            RunOnTee(NewTeeResponseWriter(NewResponseWriter), script).w]
    /\ UNCHANGED <<coreVars, reloadVars, sinkVars, unitVars, backends, dkind, dargs,
                   dsnap, dtodo, dany, dfail, derr, dlog, dres, oplog, dcount>>

\* a.l.RLock(); anyLogged := false; the range over a.backends starts.
Dispatch_RLock(d) ==
    /\ dpc[d] = "rlock"
    /\ dpc' = [dpc EXCEPT ![d] = "loop"]
    /\ dsnap' = [dsnap EXCEPT ![d] = backends]
    /\ dtodo' = [dtodo EXCEPT ![d] = DOMAIN backends]
    /\ dany' = [dany EXCEPT ![d] = FALSE]
    /\ UNCHANGED <<coreVars, moreVars, backends, dkind, dargs, dfail, derr, dlog, dres,
                   oplog, dcount>>

\* One iteration of the range loop: the sink is called and returns nil or an
\* error; an error is logged, a nil sets anyLogged.
Dispatch_Visit(d) ==
    /\ dpc[d] = "loop"
    /\ \E name \in dtodo[d], err \in {Nil, "failed"} :
          /\ dlog' = [dlog EXCEPT ![d] = Append(@,
                 [name |-> name, backend |-> backends[name],
                  args |-> SinkArgs(dkind[d], dargs[d], derr[d])])]
          /\ derr' = [derr EXCEPT ![d] = err]
          /\ IF err # Nil
             THEN /\ oplog' = [oplog EXCEPT ![d] = Append(@, <<"failed to log", name>>)]
                  /\ dfail' = [dfail EXCEPT ![d] = @ + 1]
                  /\ UNCHANGED dany
             ELSE /\ dany' = [dany EXCEPT ![d] = TRUE]
                  /\ UNCHANGED <<oplog, dfail>>
          /\ dtodo' = [dtodo EXCEPT ![d] = RangeRest(@, name, err)]
    /\ UNCHANGED <<coreVars, moreVars, backends, dpc, dkind, dargs, dsnap, dres, dcount>>

\* Mutant: ServeHTTP hands the failure of every sink to its caller.
Dispatch_Finish_Propagate(d) ==
    /\ dpc[d] = "loop"
    /\ dtodo[d] = {}
    /\ dpc' = [dpc EXCEPT ![d] = "done"]
    /\ dres' = [dres EXCEPT ![d] =
                   IF AllSinksFailed(dany[d], Cardinality(DOMAIN backends))
                   THEN FanOutError(dkind[d])
                   ELSE IF dkind[d] = "http" THEN "returned" ELSE Nil]
    /\ UNCHANGED <<coreVars, moreVars, backends, dkind, dargs, dsnap, dtodo, dany, dfail,
                   derr, dlog, oplog, dcount>>

\* The loop is over: the at-least-one-success test, the return value and the
\* deferred RUnlock().
Dispatch_Finish(d) ==
    /\ dpc[d] = "loop"
    /\ dtodo[d] = {}
    /\ dpc' = [dpc EXCEPT ![d] = "done"]
    /\ IF AllSinksFailed(dany[d], Cardinality(DOMAIN backends))
       THEN IF dkind[d] = "http"
            THEN /\ oplog' = [oplog EXCEPT ![d] = Append(@, <<FanOutError("http")>>)]
                 /\ dres' = [dres EXCEPT ![d] = "returned"]
            ELSE /\ dres' = [dres EXCEPT ![d] = FanOutError(dkind[d])]
                 /\ UNCHANGED oplog
       ELSE /\ dres' = [dres EXCEPT ![d] = IF dkind[d] = "http" THEN "returned" ELSE Nil]
            /\ UNCHANGED oplog
    /\ UNCHANGED <<coreVars, moreVars, backends, dkind, dargs, dsnap, dtodo, dany, dfail,
                   derr, dlog, dcount>>

\* The caller has its result; the goroutine is free for the next dispatch.
Dispatch_Return(d) ==
    /\ dpc[d] = "done"
    /\ dpc' = [dpc EXCEPT ![d] = "idle"]
    /\ dkind' = [dkind EXCEPT ![d] = "none"]
    /\ dargs' = [dargs EXCEPT ![d] = Nil]
    /\ dsnap' = [dsnap EXCEPT ![d] = << >>]
    /\ dtodo' = [dtodo EXCEPT ![d] = {}]
    /\ dany' = [dany EXCEPT ![d] = FALSE]
    /\ dfail' = [dfail EXCEPT ![d] = 0]
    /\ derr' = [derr EXCEPT ![d] = Nil]
    /\ dlog' = [dlog EXCEPT ![d] = << >>]
    /\ dres' = [dres EXCEPT ![d] = "none"]
    /\ oplog' = [oplog EXCEPT ![d] = << >>]
    /\ hscript' = [hscript EXCEPT ![d] = << >>]
    /\ written' = [written EXCEPT ![d] = Nil]
    /\ UNCHANGED <<coreVars, reloadVars, sinkVars, unitVars, backends, dcount>>

NextBroker ==
    \/ \E name \in SinkNames, b \in SinkInstances : Broker_Register(name, b)
    \/ \E name \in SinkNames : Broker_Deregister(name)
    \/ \E d \in Dispatchers :
          \/ Dispatch_Call(d)
          \/ ServeHTTP_Handler(d)
          \/ Dispatch_RLock(d)
          \/ Dispatch_Visit(d)
          \/ Dispatch_Finish(d)
          \/ Dispatch_Return(d)

SpecBroker == Init /\ [][NextBroker]_vars

(***************************************************************************)
(* Properties of the fan-out                                               *)
(***************************************************************************)
\* The dispatch has returned to its caller
Dispatched(d) == dpc[d] = "done"

\* Sinks registered when the fan-out started, and how many of them failed
SinksAtStart(d) == DOMAIN dsnap[d]
CallsTo(d, name) == {i \in DOMAIN dlog[d] : dlog[d][i].name = name}

\* C1: with N registered sinks of which K return an error, LogRequest and
\* LogResponse return nil when N = 0 or K < N, and the error "no audit
\* backend succeeded in logging the request" (resp. "... the response") when
\* K = N >= 1.
C1_AtLeastOneSuccess ==
    \A d \in Dispatchers :
        (Dispatched(d) /\ dkind[d] \in {"request", "response"}) =>
            LET N == Cardinality(SinksAtStart(d))
                K == dfail[d]
            IN  /\ (N = 0 \/ K < N) => dres[d] = Nil
                /\ (K = N /\ N >= 1) =>
                      dres[d] = IF dkind[d] = "request"
                                THEN "no audit backend succeeded in logging the request"
                                ELSE "no audit backend succeeded in logging the response"

C1_Witness ==
    \E d \in Dispatchers :
        /\ Dispatched(d)
        /\ dkind[d] = "request"
        /\ Cardinality(SinksAtStart(d)) = 2
        /\ dfail[d] = 2
        /\ dres[d] # Nil

\* C2: in one dispatch every sink registered when the fan-out starts is
\* called exactly once, with the caller's own arguments (for LogResponse the
\* caller's response error included), whatever the sinks visited before it
\* returned; no other call is made.
C2_EverySinkOnce ==
    \A d \in Dispatchers :
        Dispatched(d) =>
            /\ Len(dlog[d]) = Cardinality(SinksAtStart(d))
            /\ \A name \in SinksAtStart(d) :
                  /\ Cardinality(CallsTo(d, name)) = 1
                  /\ \A i \in CallsTo(d, name) :
                        /\ dlog[d][i].backend = dsnap[d][name]
                        /\ dlog[d][i].args = dargs[d]

\* Both sinks failed, the second was still called, and the response error
\* the caller passed is not nil.
C2_Witness ==
    \E d \in Dispatchers :
        /\ Dispatched(d)
        /\ dkind[d] = "response"
        /\ dargs[d].err # Nil
        /\ Len(dlog[d]) = 2
        /\ dfail[d] = 2

(***************************************************************************)
(* Vocabulary of the properties of the mount table                         *)
(***************************************************************************)
\* The path with a trailing "/" added when it has none
Normalized(path) ==
    IF path # << >> /\ path[Len(path)] = "/" THEN path ELSE Append(path, "/")

\* One path is a prefix of the other, equal paths included
Overlap(a, b) == HasPrefix(a, b) \/ HasPrefix(b, a)

PathsOf(entries) == {entries[i].Path : i \in DOMAIN entries}

\* The call has all its statements behind it; only the deferred Unlock is left
Returning(p, o, r) == pc[p] = "ret" /\ op[p] = o /\ result[p] = r

\* Between c.audit.Lock() returning and the deferred Unlock()
InCriticalSection(p) ==
    pc[p] \in {"defer", "check", "clone", "persist", "swap", "register",
               "deregister", "ret"}

\* The step in which goroutine p leaves position at
StepFrom(p, at) == pc[p] = at /\ pc'[p] # at

\* C3: no two distinct entries of the in-memory table have paths of which
\* one is a prefix of the other (equal paths included).
C3_NoPrefixOverlap ==
    \A i, j \in DOMAIN Entries :
        i # j => ~Overlap(Entries[i].Path, Entries[j].Path)

\* C4: when enable(e) returns nil, IsRegistered holds for e's normalized
\* path, the persisted table contains e and the in-memory table equals the
\* persisted table.
C4_EnablePostcondition ==
    \A p \in Procs :
        Returning(p, "enable", "ok") =>
            /\ IsRegistered(Normalized(entry[p].Path))
            /\ \E i \in DOMAIN Unmarshal(barrier) : Unmarshal(barrier)[i] = entry[p]
            /\ Entries = Unmarshal(barrier)

\* C5: when disable(p) returns nil, IsRegistered is false for p's normalized
\* path and neither the persisted nor the in-memory table has an entry with
\* that path.
C5_DisablePostcondition ==
    \A p \in Procs :
        Returning(p, "disable", "ok") =>
            /\ ~IsRegistered(Normalized(entry[p].Path))
            /\ Normalized(entry[p].Path) \notin PathsOf(Unmarshal(barrier))
            /\ Normalized(entry[p].Path) \notin PathsOf(Entries)

\* C6: no two enable/disable calls are inside their critical section at the
\* same time.
C6_MutualExclusion ==
    Cardinality({p \in Procs : InCriticalSection(p)}) <= 1

\* C7: when the barrier write fails, the call returns "failed to update audit
\* table" and performs no swap of the in-memory table and no Register or
\* Deregister: the step leaves c.audit and the registry as they are, and a
\* call goes on to the swap or to the registry only after a successful write.
C7_PersistFailure ==
    /\ [][\A p \in Procs :
            (StepFrom(p, "persist") /\ ~didPut'[p]) =>
                /\ pc'[p] = "ret"
                /\ result'[p] = "failed to update audit table"
                /\ UNCHANGED <<audit, Entries, barrier, backends>>]_vars
    /\ [](\A p \in Procs :
            /\ Returning(p, op[p], "failed to update audit table") =>
                  ~didPut[p] /\ ~didSwap[p] /\ ~didReg[p]
            /\ (pc[p] \in {"swap", "register", "deregister"} \/ didSwap[p] \/ didReg[p])
                  => didPut[p])

C7_Witness ==
    \E p \in Procs :
        /\ Returning(p, "enable", "failed to update audit table")
        /\ Entries # << >>

\* C8: the new table is written to the barrier before the in-memory table is
\* replaced, Register/Deregister follow the replacement, and outside the
\* window between a call's write and its swap the in-memory table is the
\* table last written to the barrier.
C8_PersistBeforeSwap ==
    /\ \A p \in Procs : (didSwap[p] => didPut[p]) /\ (didReg[p] => didSwap[p])
    /\ (\A p \in Procs : pc[p] # "swap") => Entries = Unmarshal(barrier)

\* C9 as stated: enable(e) whose normalized path overlaps the path of an
\* existing entry returns "path already in use" and changes nothing.
C9_ConflictRejected_AsStated ==
    [][\A p \in Procs :
          (/\ StepFrom(p, "check")
           /\ op[p] = "enable"
           /\ \E q \in PathsOf(Entries) : Overlap(Normalized(entry[p].Path), q))
          => /\ pc'[p] = "ret"
             /\ result'[p] = "path already in use"
             /\ UNCHANGED <<audit, Entries, barrier, backends>>]_vars

\* C9 (amended): enable(e) whose normalized path is not "/" and overlaps the
\* path of an existing entry returns "path already in use"; the call writes
\* nothing to the barrier, does not swap the table and registers nothing.
C9_ConflictRejected ==
    /\ [][\A p \in Procs :
            (/\ StepFrom(p, "check")
             /\ op[p] = "enable"
             /\ Normalized(entry[p].Path) # Slash
             /\ \E q \in PathsOf(Entries) : Overlap(Normalized(entry[p].Path), q))
            => /\ pc'[p] = "ret"
               /\ result'[p] = "path already in use"
               /\ UNCHANGED <<audit, Entries, barrier, backends>>]_vars
    /\ [](\A p \in Procs :
            Returning(p, "enable", "path already in use") =>
                ~didPut[p] /\ ~didSwap[p] /\ ~didReg[p])

\* Both directions are met: the new path extends an existing one, and an
\* existing path extends the new one.
C9_Witness ==
    \E p \in Procs :
        /\ Returning(p, "enable", "path already in use")
        /\ \E q \in PathsOf(Entries) :
              q # entry[p].Path /\ HasPrefix(q, entry[p].Path)

\* C10: disable(p) for a path that matches no entry returns "no matching
\* backend", writes nothing to the barrier and leaves the in-memory table and
\* the registry as they are.
C10_DisableUnknown ==
    /\ [][\A p \in Procs :
            (/\ StepFrom(p, "check")
             /\ op[p] = "disable"
             /\ Normalized(entry[p].Path) \notin PathsOf(Entries))
            => /\ pc'[p] = "ret"
               /\ result'[p] = "no matching backend"
               /\ UNCHANGED <<audit, Entries, barrier, backends>>]_vars
    /\ [](\A p \in Procs :
            Returning(p, "disable", "no matching backend") =>
                ~didPut[p] /\ ~didSwap[p] /\ ~didReg[p])

C10_Witness ==
    \E p \in Procs :
        /\ Returning(p, "disable", "no matching backend")
        /\ Entries # << >>

\* The driver type of p's entry has no registered factory
NoFactory(p) == entry[p].Type \notin auditBackends

\* The factory of p's entry rejects the options of the entry
FactoryRejects(p) ==
    entry[p].Type = "file" /\ Factory(entry[p].Options).err # "ok"

\* The error the claim expects enable to return for p's entry
RejectionOf(p) ==
    IF NoFactory(p) THEN "unknown backend type" ELSE Factory(entry[p].Options).err

\* The path of p's entry is specified and clear of every existing entry
PathFree(p) ==
    /\ Normalized(entry[p].Path) # Slash
    /\ \A q \in PathsOf(Entries) : ~Overlap(Normalized(entry[p].Path), q)

\* C11 as stated: enable(e) whose driver type has no registered factory, or
\* whose factory rejects the options, returns that error and changes nothing.
C11_BackendRejected_AsStated ==
    [][\A p \in Procs :
          (/\ StepFrom(p, "check")
           /\ op[p] = "enable"
           /\ (NoFactory(p) \/ FactoryRejects(p)))
          => /\ pc'[p] = "ret"
             /\ result'[p] = RejectionOf(p)
             /\ UNCHANGED <<audit, Entries, barrier, backends>>]_vars

\* C11 (amended): enable(e) whose path is specified and overlaps no existing
\* entry, and whose driver type has no registered factory or whose factory
\* rejects the options, returns that error; the call writes nothing to the
\* barrier, does not swap the table and registers nothing.
C11_BackendRejected ==
    /\ [][\A p \in Procs :
            (/\ StepFrom(p, "check")
             /\ op[p] = "enable"
             /\ PathFree(p)
             /\ (NoFactory(p) \/ FactoryRejects(p)))
            => /\ pc'[p] = "ret"
               /\ result'[p] = RejectionOf(p)
               /\ UNCHANGED <<audit, Entries, barrier, backends>>]_vars
    /\ [](\A p \in Procs :
            (\E r \in {"unknown backend type", "path is required",
                       "strconv.ParseBool: invalid syntax"} :
                Returning(p, "enable", r)) =>
                ~didPut[p] /\ ~didSwap[p] /\ ~didReg[p])

\* The factory rejected the options while the table already had an entry.
C11_Witness ==
    \E p \in Procs :
        /\ Returning(p, "enable", "path is required")
        /\ entry[p].Type = "file"
        /\ Entries # << >>

(***************************************************************************)
(* Unseal: loadAudits, then setupAudits.  In SpecReload this core starts   *)
(* sealed on an empty barrier, one goroutine makes enableAudit and         *)
(* disableAudit calls one after the other, and then a second core with the *)
(* same factories is unsealed on the same barrier.                         *)
(***************************************************************************)
loadAuditFailed == "failed to setup audit table"

\* The goroutine making the calls of SpecReload
Callers == {"w1"}

\* Mutant: the stored table is ignored and the default table installed.
loadAudits_IgnoreStored(getOK, raw, putOK) ==
    IF ~getOK THEN [err |-> loadAuditFailed, set |-> FALSE, Entries |-> << >>, put |-> FALSE]
    ELSE IF putOK THEN [err |-> "ok", set |-> TRUE, Entries |-> defaultAuditTable, put |-> TRUE]
    ELSE [err |-> loadAuditFailed, set |-> TRUE, Entries |-> defaultAuditTable, put |-> FALSE]

\* loadAudits on a core whose c.audit is nil: the error returned ("ok" for
\* nil), whether c.audit was set and the Entries of the table it then points
\* to, and whether the default table was written.  getOK
\* and putOK are the outcomes of barrier.Get and barrier.Put; raw is the
\* stored value, Nil when the key is absent.
loadAudits(getOK, raw, putOK) ==
    IF ~getOK THEN [err |-> loadAuditFailed, set |-> FALSE, Entries |-> << >>, put |-> FALSE]
    ELSE IF raw # Nil THEN [err |-> "ok", set |-> TRUE, Entries |-> Unmarshal(raw), put |-> FALSE]
    ELSE IF putOK THEN [err |-> "ok", set |-> TRUE, Entries |-> defaultAuditTable, put |-> TRUE]
    ELSE [err |-> loadAuditFailed, set |-> TRUE, Entries |-> defaultAuditTable, put |-> FALSE]

\* The loop of setupAudits from entry i on, broker being the registry built
\* so far: the error returned and the broker
RECURSIVE setupAuditsFrom(_, _, _)
setupAuditsFrom(entries, i, broker) ==
    IF i > Len(entries) THEN [err |-> "ok", broker |-> broker]
    ELSE IF newAuditBackend(entries[i].Type, entries[i].Options) # "ok"
         THEN [err |-> loadAuditFailed, broker |-> broker]
         ELSE setupAuditsFrom(entries, i + 1,
                  Register(broker, entries[i].Path,
                           [Type |-> entries[i].Type, View |-> entries[i].UUID]))

\* setupAudits: a new broker with a sink per entry of the table
setupAudits(entries) == setupAuditsFrom(entries, 1, NewAuditBroker)

\* This core, sealed: c.audit and c.auditBroker are nil
InitSealed ==
    /\ audit = 0
    /\ Entries = << >>
    /\ mutex = << >>
    /\ barrier = Nil
    /\ nextUUID = 1
    /\ calls = 0
    /\ fatal = FALSE
    /\ pc = [p \in Procs |-> "idle"]
    /\ op = [p \in Procs |-> "none"]
    /\ entry = [p \in Procs |-> NoEntry]
    /\ lockTbl = [p \in Procs |-> 0]
    /\ deferTbl = [p \in Procs |-> 0]
    /\ newTable = [p \in Procs |-> << >>]
    /\ result = [p \in Procs |-> "none"]
    /\ didPut = [p \in Procs |-> FALSE]
    /\ didSwap = [p \in Procs |-> FALSE]
    /\ didReg = [p \in Procs |-> FALSE]
    /\ backends = NewAuditBroker
    /\ c1pc = "sealed"

InitReload ==
    /\ InitSealed
    /\ InitBrokerIdle
    /\ InitHTTPIdle
    /\ InitUnitIdle
    /\ InitSinkIdle
    /\ sinkB = [s \in Sinks |-> DefaultBackend]
    /\ InitSecondCore

\* loadAudits on this core
Core1_loadAudits ==
    /\ c1pc = "sealed"
    /\ \E getOK \in BOOLEAN, putOK \in BOOLEAN :
          LET r == loadAudits(getOK, barrier, putOK) IN
          /\ c1pc' = IF r.err = "ok" THEN "loaded" ELSE "failed"
          /\ IF r.set
             THEN /\ audit' = 1
                  /\ mutex' = << FALSE >>
                  /\ Entries' = r.Entries
             ELSE UNCHANGED <<audit, mutex, Entries>>
          /\ barrier' = IF r.put THEN Marshal(r.Entries) ELSE barrier
    /\ UNCHANGED <<nextUUID, calls, fatal, pc, op, entry, lockTbl, deferTbl, newTable,
                   result, didPut, didSwap, didReg, backends, brokerVars,
                   c2pc, c2Entries, c2backends, httpVars, sinkVars, unitVars>>

\* setupAudits on this core
Core1_setupAudits ==
    /\ c1pc = "loaded"
    /\ LET r == setupAudits(Entries) IN
          /\ c1pc' = IF r.err = "ok" THEN "ready" ELSE "failed"
          /\ backends' = IF r.err = "ok" THEN r.broker ELSE backends
    /\ UNCHANGED <<coreVars, brokerVars, c2pc, c2Entries, c2backends, httpVars, sinkVars, unitVars>>

\* An enableAudit / disableAudit call of this core takes a step; the second
\* core has not been started yet.
Core1_Step(p) ==
    /\ c1pc = "ready"
    /\ c2pc = "sealed"
    /\ \/ Call(p)
       \/ Lock(p)
       \/ Defer(p)
       \/ enableAudit_Check(p)
       \/ enableAudit_Clone(p)
       \/ disableAudit_Check(p)
       \/ persistAudit(p)
       \/ Swap(p)
       \/ enableAudit_Register(p)
       \/ disableAudit_Deregister(p)
       \/ Return(p)

\* loadAudits on the second core, started when no call is in progress
Core2_loadAudits ==
    /\ c1pc = "ready"
    /\ \A p \in Procs : pc[p] = "idle"
    /\ c2pc = "sealed"
    /\ \E getOK \in BOOLEAN, putOK \in BOOLEAN :
          LET r == loadAudits(getOK, barrier, putOK) IN
          /\ c2pc' = IF r.err = "ok" THEN "loaded" ELSE "failed"
          /\ c2Entries' = r.Entries
          /\ barrier' = IF r.put THEN Marshal(r.Entries) ELSE barrier
    /\ UNCHANGED <<audit, Entries, mutex, nextUUID, calls, fatal, pc, op, entry, lockTbl,
                   deferTbl, newTable, result, didPut, didSwap, didReg, backends,
                   brokerVars, c1pc, c2backends, httpVars, sinkVars, unitVars>>

\* setupAudits on the second core
Core2_setupAudits ==
    /\ c2pc = "loaded"
    /\ LET r == setupAudits(c2Entries) IN
          /\ c2pc' = IF r.err = "ok" THEN "ready" ELSE "failed"
          /\ c2backends' = IF r.err = "ok" THEN r.broker ELSE c2backends
    /\ UNCHANGED <<coreVars, backends, brokerVars, c1pc, c2Entries, httpVars, sinkVars, unitVars>>

NextReload ==
    \/ Core1_loadAudits
    \/ Core1_setupAudits
    \/ \E p \in Callers : Core1_Step(p)
    \/ Core2_loadAudits
    \/ Core2_setupAudits

SpecReload == InitReload /\ [][NextReload]_vars

\* C12: after any sequence of enable/disable calls on one core (including
\* none), a second core that has run load then setup against the same barrier
\* has an in-memory table equal to the first core's, and its broker has a sink
\* registered at the path of every entry of that table.
C12_ReloadRoundTrip ==
    c2pc = "ready" =>
        /\ c2Entries = Entries
        /\ \A i \in DOMAIN c2Entries : c2Entries[i].Path \in DOMAIN c2backends

\* The second core is up after calls that left one entry in the table and
\* after the first entry enabled was disabled again.
C12_Witness ==
    /\ c2pc = "ready"
    /\ Len(c2Entries) = 1
    /\ c2Entries[1].UUID = 2

\* The second core is up on the default table that load installed.
C12_WitnessNone ==
    /\ c2pc = "ready"
    /\ calls = 0
    /\ c2Entries = << >>

\* C13: while a dispatch holds the broker read lock no Register or Deregister
\* takes effect, so the registry is what the dispatch found when it took the
\* lock, and every sink the dispatch calls is the one registered under that
\* name at the time of the call; a sink deregistered before the dispatch took
\* the lock is not called.
C13_NoMutationDuringFanOut ==
    /\ [][Readers # {} => backends' = backends]_vars
    /\ [](\A d \in Readers :
            /\ backends = dsnap[d]
            /\ \A i \in DOMAIN dlog[d] :
                  /\ dlog[d][i].name \in DOMAIN backends
                  /\ dlog[d][i].backend = backends[dlog[d][i].name])

\* A dispatch called the sink at "foo"; a dispatch started later found "foo"
\* deregistered and is in the middle of its fan-out over the other sink.
C13_Witness ==
    \E d1, d2 \in Dispatchers :
        /\ dpc[d1] = "done"
        /\ CallsTo(d1, "foo") # {}
        /\ dpc[d2] = "loop"
        /\ dargs[d2].ptr > dargs[d1].ptr
        /\ DOMAIN dsnap[d2] = {"bar"}
        /\ Len(dlog[d2]) = 1

\* Goroutine p waits in c.audit.Lock() for the mutex of a table that is
\* locked, that c.audit no longer points to, and that no call has as the
\* receiver of its deferred Unlock(): no step of any goroutine, present or
\* future, releases that mutex, so p never leaves Lock().
BlockedForever(p) ==
    /\ pc[p] = "lock"
    /\ mutex[lockTbl[p]]
    /\ audit # lockTbl[p]
    /\ \A q \in Procs :
          ~(/\ pc[q] \in {"check", "clone", "persist", "swap", "register",
                          "deregister", "ret"}
            /\ deferTbl[q] = lockTbl[p])

\* C14: the audit-table lock is taken before the broker lock and never the
\* other way round, so no deadlock state is reachable: no call waits for a
\* lock that will never be released.
C14_NoDeadlock ==
    ~fatal => \A p \in Procs : ~BlockedForever(p)

\* All the sinks of the fan-out returned an error, and there was one at least
EverySinkFailed(d) ==
    Cardinality(SinksAtStart(d)) >= 1 /\ dfail[d] = Cardinality(SinksAtStart(d))

\* C15: when the registry is non-empty and every sink's LogHTTPRequest
\* returns an error, ServeHTTP writes the failure to the operational log and
\* returns normally; whatever the sinks returned, the response the client's
\* writer received (status, headers, body) is what the handler wrote, and no
\* step after the handler changes it.
C15_HTTPFailureNotPropagated ==
    /\ [](\A d \in Dispatchers :
            (Dispatched(d) /\ dkind[d] = "http") =>
                /\ dres[d] = "returned"
                /\ written[d] = RunOnWriter(NewResponseWriter, hscript[d])
                /\ EverySinkFailed(d) =>
                      oplog[d][Len(oplog[d])] =
                          <<"no audit backend succeeded in logging the http request">>)
    /\ [][\A d \in Dispatchers :
            dpc[d] \in {"rlock", "loop"} => written'[d] = written[d]]_vars

\* ServeHTTP has returned after both sinks failed; the handler had written a
\* status, a header and a body.
C15_Witness ==
    \E d \in Dispatchers :
        /\ Dispatched(d)
        /\ dkind[d] = "http"
        /\ Cardinality(SinksAtStart(d)) = 2
        /\ dfail[d] = 2
        /\ written[d].Body # << >>

(***************************************************************************)
(* The sinks in detail: one fan-out at a time hands the caller's objects   *)
(* to every sink in turn, in any order (the broker ranges over a map).     *)
(***************************************************************************)
MaxFanOuts == 1

\* The sinks are built by their factories from some options.
InitSink ==
    /\ InitCore
    /\ backends = NewAuditBroker
    /\ InitBrokerIdle
    /\ InitHTTPIdle
    /\ InitUnitIdle
    /\ InitSinkIdle
    /\ sinkB \in [Sinks -> SinkBackends]
    /\ c1pc = "ready"
    /\ InitSecondCore

Visited == {visited[i] : i \in DOMAIN visited}

\* AuditBroker.LogRequest(auth, req) starts
Sink_BeginRequest ==
    /\ skind = "none"
    /\ scount < MaxFanOuts
    /\ \E hasAuth \in BOOLEAN, a \in AuthValues, r \in RequestValues :
        LET h == (IF hasAuth THEN <<a>> ELSE << >>) \o <<r>> IN
        /\ heap' = h
        /\ sorig' = h
        /\ sargs' = [auth |-> IF hasAuth THEN 1 ELSE 0, req |-> Len(h),
                     resp |-> 0, err |-> Nil]
    /\ skind' = "request"
    /\ scount' = scount + 1
    /\ UNCHANGED <<coreVars, backends, brokerVars, reloadVars, httpVars, unitVars,
                   sinkB, visited, sret>>

\* AuditBroker.LogResponse(auth, req, resp, err) starts
Sink_BeginResponse ==
    /\ skind = "none"
    /\ scount < MaxFanOuts
    /\ \E hasAuth \in BOOLEAN, a \in AuthValues, r \in RequestValues,
          hasResp \in BOOLEAN, rs \in ResponseValues,
          e \in {Nil, "permission denied"} :
        LET h == (IF hasAuth THEN <<a>> ELSE << >>) \o <<r>>
                 \o (IF hasResp THEN <<rs>> ELSE << >>) IN
        /\ heap' = h
        /\ sorig' = h
        /\ sargs' = [auth |-> IF hasAuth THEN 1 ELSE 0,
                     req |-> IF hasAuth THEN 2 ELSE 1,
                     resp |-> IF hasResp THEN Len(h) ELSE 0, err |-> e]
    /\ skind' = "response"
    /\ scount' = scount + 1
    /\ UNCHANGED <<coreVars, backends, brokerVars, reloadVars, httpVars, unitVars,
                   sinkB, visited, sret>>

\* AuditBroker.LogHTTPRequest(req, resp) starts
Sink_BeginHTTP ==
    /\ skind = "none"
    /\ scount < MaxFanOuts
    /\ \E r \in HTTPRequestValues, t \in TeeValues :
        /\ heap' = <<r, t>>
        /\ sorig' = <<r, t>>
        /\ sargs' = [auth |-> 0, req |-> 1, resp |-> 2, err |-> Nil]
    /\ skind' = "http"
    /\ scount' = scount + 1
    /\ UNCHANGED <<coreVars, backends, brokerVars, reloadVars, httpVars, unitVars,
                   sinkB, visited, sret>>

\* What the method of sink s named by the fan-out does on the heap
SinkMethod(s, openOK, writeOK) ==
    IF skind = "request"
    THEN Backend_LogRequest(sinkB[s], heap, sargs.auth, sargs.req, openOK, writeOK)
    ELSE IF skind = "response"
    THEN Backend_LogResponse(sinkB[s], heap, sargs.auth, sargs.req, sargs.resp,
                             sargs.err, openOK, writeOK)
    ELSE Backend_LogHTTPRequest(sinkB[s], heap, sargs.req, sargs.resp, openOK, writeOK)

\* The range loop of the fan-out calls sink s; the sink's copies are garbage
\* when it returns, the caller's objects stay
Sink_Call(s) ==
    /\ skind # "none"
    /\ s \notin Visited
    /\ \E openOK \in BOOLEAN, writeOK \in BOOLEAN :
        LET r == SinkMethod(s, openOK, writeOK) IN
        /\ heap' = SubSeq(r.heap, 1, Len(heap))
        /\ sinkB' = [sinkB EXCEPT ![s].f = r.f]
        /\ sret' = [sret EXCEPT ![s] =
                      [called |-> TRUE, err |-> r.err, out |-> r.out, got |-> heap]]
    /\ visited' = Append(visited, s)
    /\ UNCHANGED <<coreVars, backends, brokerVars, reloadVars, httpVars, unitVars,
                   skind, sargs, sorig, scount>>

\* The fan-out returns
Sink_End ==
    /\ skind # "none"
    /\ Visited = Sinks
    /\ heap' = << >>
    /\ skind' = "none"
    /\ sargs' = NoArgs
    /\ sorig' = << >>
    /\ visited' = << >>
    /\ sret' = [s \in Sinks |-> NoCall]
    /\ UNCHANGED <<coreVars, backends, brokerVars, reloadVars, httpVars, unitVars,
                   sinkB, scount>>

NextSink ==
    \/ Sink_BeginRequest
    \/ Sink_BeginResponse
    \/ Sink_BeginHTTP
    \/ \E s \in Sinks : Sink_Call(s)
    \/ Sink_End

SpecSink == InitSink /\ [][NextSink]_vars

(***************************************************************************)
(* C16: a sink handling LogRequest or LogResponse, redacting or not,       *)
(* leaves the caller's auth, request and response as they were: at every   *)
(* point of the fan-out the caller's objects equal their values at its     *)
(* start, and every sink called so far received those values.              *)
(***************************************************************************)
Redacting(s) == ~sinkB[s].LogRaw

C16_CallerValuesUnchanged ==
    skind \in {"request", "response"} =>
        /\ heap = sorig
        /\ \A s \in Sinks : sret[s].called => sret[s].got = sorig

\* Two redacting sinks have both written a response entry for a call with an
\* auth and a response.
C16_Witness ==
    /\ skind = "response"
    /\ sargs.auth # 0
    /\ sargs.resp # 0
    /\ Visited = Sinks
    /\ \A s \in Sinks : Redacting(s) /\ sret[s].called /\ Len(sret[s].out) = 1

(***************************************************************************)
(* C17: a sink handling LogHTTPRequest does not modify the HTTP request or *)
(* the captured response: at every point of the fan-out the caller's       *)
(* request and tee writer equal their values at its start, every sink      *)
(* called so far received them so, and the entry a sink wrote is the entry *)
(* it writes for the exchange as captured.                                 *)
(***************************************************************************)
EntryFor(s, h) ==
    Backend_LogHTTPRequest(sinkB[s], h, sargs.req, sargs.resp, TRUE, TRUE).out

C17_HTTPExchangeUnchanged ==
    skind = "http" =>
        /\ heap = sorig
        /\ \A s \in Sinks :
              sret[s].called =>
                  /\ sret[s].got = sorig
                  /\ sret[s].out # << >> => sret[s].out = EntryFor(s, sorig)

(***************************************************************************)
(* C18: with log_raw = false, no request or response entry a sink writes   *)
(* contains the raw value of a client token or of a string leaf of the     *)
(* request or response data the caller passed; the data of the entry is    *)
(* the caller's data with each string leaf s replaced by                   *)
(* "sha1:" + hex(sha1(s + salt)), and the token of the response's auth     *)
(* appears hashed the same way.  With log_raw = true the entry carries the *)
(* caller's data and token as they are.                                    *)
(***************************************************************************)
H(s) == "sha1:" \o Sha1Hex[s \o ""]

\* The string leaves of a data value
RECURSIVE Leaves(_)
Leaves(v) ==
    IF v.t = "string" THEN {v.v}
    ELSE IF v.t \in {"slice", "map"} THEN UNION {Leaves(v.v[k]) : k \in DOMAIN v.v}
    ELSE {}

\* out is orig with every string leaf replaced by its hash and nothing else
\* changed
RECURSIVE Redacted(_, _)
Redacted(orig, out) ==
    /\ out.t = orig.t
    /\ IF orig.t = "string" THEN out.v = H(orig.v)
       ELSE IF orig.t \in {"slice", "map"}
            THEN /\ DOMAIN out.v = DOMAIN orig.v
                 /\ \A k \in DOMAIN orig.v : Redacted(orig.v[k], out.v[k])
            ELSE out.v = orig.v

\* The caller's auth, request and response at the start of the fan-out
CallerAuth == IF sargs.auth = 0 THEN ZeroAuth ELSE sorig[sargs.auth]
CallerRequest == sorig[sargs.req]
CallerResponse == IF sargs.resp = 0 THEN ZeroResponse ELSE sorig[sargs.resp]

\* The raw values that must not be written: the client tokens and the
\* string leaves of the data
Secrets ==
    ({CallerAuth.ClientToken, CallerResponse.Auth.ClientToken} \ {""})
        \cup Leaves(CallerRequest.Data) \cup Leaves(CallerResponse.Data)

\* Every string an entry holds in a token or data position
TokenOf(a) == IF "client_token" \in DOMAIN a THEN {a.client_token} ELSE {}
EntryStrings(e) ==
    TokenOf(e.auth) \cup Leaves(e.request.data)
        \cup (IF e.type = "response"
              THEN TokenOf(e.response.auth) \cup Leaves(e.response.data)
              ELSE {})

EntryRedacted(e) ==
    /\ EntryStrings(e) \cap Secrets = {}
    /\ Redacted(CallerRequest.Data, e.request.data)
    /\ e.type = "response" =>
          /\ Redacted(CallerResponse.Data, e.response.data)
          /\ CallerResponse.Auth.ClientToken # "" =>
                TokenOf(e.response.auth) = {H(CallerResponse.Auth.ClientToken)}

EntryRaw(e) ==
    /\ e.request.data = CallerRequest.Data
    /\ e.type = "response" =>
          /\ e.response.data = CallerResponse.Data
          /\ CallerResponse.Auth.ClientToken # "" =>
                TokenOf(e.response.auth) = {CallerResponse.Auth.ClientToken}

C18_EntriesRedacted ==
    skind \in {"request", "response"} =>
        \A s \in Sinks :
            (sret[s].called /\ sret[s].out # << >>) =>
                IF sinkB[s].LogRaw THEN EntryRaw(sret[s].out[1])
                ELSE EntryRedacted(sret[s].out[1])

\* A redacting sink has written the response entry of a call whose request
\* data is nested and whose response brings a new token.
C18_Witness ==
    /\ skind = "response"
    /\ sargs.auth # 0
    /\ CallerResponse.Auth.ClientToken = "newtok"
    /\ "tags" \in DOMAIN CallerRequest.Data.v
    /\ \E s \in Sinks :
          /\ ~sinkB[s].LogRaw
          /\ sret[s].called
          /\ sret[s].out # << >>

\* A sink with log_raw = true has written such an entry.
C18_WitnessRaw ==
    /\ skind = "response"
    /\ CallerResponse.Auth.ClientToken = "newtok"
    /\ \E s \in Sinks :
          /\ sinkB[s].LogRaw
          /\ sret[s].called
          /\ sret[s].out # << >>

(***************************************************************************)
(* C19: exactly one logging mode is active per sink.  A call of the mode   *)
(* that is not active (LogRequest or LogResponse with log_http = true,     *)
(* LogHTTPRequest with log_http = false) writes nothing and returns nil; a *)
(* call of the active mode writes one entry of its type when it returns    *)
(* nil and nothing when it returns an error.  No call writes more than     *)
(* one entry.                                                              *)
(***************************************************************************)
ActiveMode(s) == (skind = "http") <=> sinkB[s].LogHTTP

C19_OneModePerSink ==
    \A s \in Sinks :
        sret[s].called =>
            /\ Len(sret[s].out) <= 1
            /\ ~ActiveMode(s) => sret[s].out = << >> /\ sret[s].err = Nil
            /\ ActiveMode(s) =>
                  /\ sret[s].err = Nil <=> Len(sret[s].out) = 1
                  /\ sret[s].out # << >> => sret[s].out[1].type = skind

(***************************************************************************)
(* C20: in the HTTP entry a redacting sink writes, the request's header    *)
(* names are in lower case, the value under "x-vault-token" and under      *)
(* "cookie" is the hash of the exchange's value, and the value of every    *)
(* other header is the exchange's value itself (several values of one      *)
(* header joined with "; ").                                               *)
(***************************************************************************)
HeadersRedacted(hdr, out) ==
    /\ DOMAIN out = {ToLower[k] : k \in DOMAIN hdr}
    /\ \A k \in DOMAIN hdr :
          out[ToLower[k]] = IF ToLower[k] \in {"x-vault-token", "cookie"}
                            THEN H(Join(hdr[k], "; "))
                            ELSE Join(hdr[k], "; ")

C20_HeadersRedacted ==
    skind = "http" =>
        \A s \in Sinks :
            (sret[s].called /\ sret[s].out # << >> /\ Redacting(s)) =>
                HeadersRedacted(sorig[sargs.req].Header,
                                sret[s].out[1].http.request.headers)

\* The same, for the headers as the sink found them in the request it was
\* handed.
C20_HeadersRedactedAsReceived ==
    skind = "http" =>
        \A s \in Sinks :
            (sret[s].called /\ sret[s].out # << >> /\ Redacting(s)) =>
                HeadersRedacted(sret[s].got[sargs.req].Header,
                                sret[s].out[1].http.request.headers)

(***************************************************************************)
(* sanitizeHeader and formatHTTPHeader on a header map of their own.  Go   *)
(* ranges over a map in an order it does not specify; order is the order   *)
(* of one such range.                                                      *)
(***************************************************************************)
HeaderNames == {"Cookie", "cookie", "X-Other"}
HeaderValues == {<<"a">>, <<"b">>, <<"a", "b">>, <<"b", "a">>}

\* Every header map over some of the names
HeaderInputs ==
    UNION {[names -> HeaderValues] : names \in SUBSET HeaderNames}

\* The orders in which a range over h can visit its names
RangeOrders(h) ==
    {o \in [1..Cardinality(DOMAIN h) -> DOMAIN h] :
        \A i, j \in DOMAIN o : i # j => o[i] # o[j]}

\* newHeader[newName] = append(newHeader[newName], v)
AppendUnder(m, newName, v) ==
    [n \in DOMAIN m \cup {newName} |->
        IF n = newName
        THEN Append(IF newName \in DOMAIN m THEN m[newName] ELSE << >>, v)
        ELSE m[n]]

\* sanitizeHeader, the range loop visiting the names in the given order
RECURSIVE sanitizeHeaderRange(_, _, _)
sanitizeHeaderRange(h, order, m) ==
    IF order = << >> THEN m
    ELSE sanitizeHeaderRange(h, Tail(order),
             AppendUnder(m, ToLower[order[1]], Join(h[order[1]], "; ")))

\* header[strings.ToLower(name)] = strings.Join(values, "; ")
SetUnder(m, newName, v) ==
    [n \in DOMAIN m \cup {newName} |-> IF n = newName THEN v ELSE m[n]]

\* formatHTTPHeader, the range loop visiting the names in the given order
RECURSIVE formatHTTPHeaderRange(_, _, _)
formatHTTPHeaderRange(h, order, m) ==
    IF order = << >> THEN m
    ELSE formatHTTPHeaderRange(h, Tail(order),
             SetUnder(m, ToLower[order[1]], Join(h[order[1]], "; ")))

InitHeader ==
    /\ InitCore
    /\ backends = NewAuditBroker
    /\ InitBrokerIdle
    /\ InitHTTPIdle
    /\ InitSinkIdle
    /\ sinkB = [s \in Sinks |-> DefaultBackend]
    /\ c1pc = "ready"
    /\ InitSecondCore
    /\ hpc = "start"
    /\ hgiven \in HeaderInputs
    /\ newHeader = << >>
    /\ header = << >>
    /\ InitTeeIdle
    /\ InitHashIdle
    /\ InitOpenIdle
    /\ InitServeIdle

\* req.Header = sanitizeHeader(req.Header)
Header_Sanitize ==
    /\ hpc = "start"
    /\ \E order \in RangeOrders(hgiven) :
          newHeader' = sanitizeHeaderRange(hgiven, order, << >>)
    /\ hpc' = "sanitized"
    /\ UNCHANGED <<coreVars, backends, brokerVars, reloadVars, httpVars, sinkVars,
                   teeVars, hashVars, openVars, serveVars, hgiven, header>>

\* Header: f.formatHTTPHeader(req.Header), on the sanitized map
Header_Format ==
    /\ hpc = "sanitized"
    /\ \E order \in RangeOrders(newHeader) :
          header' = formatHTTPHeaderRange(newHeader, order, << >>)
    /\ hpc' = "formatted"
    /\ UNCHANGED <<coreVars, backends, brokerVars, reloadVars, httpVars, sinkVars,
                   teeVars, hashVars, openVars, serveVars, hgiven, newHeader>>

NextHeader ==
    \/ Header_Sanitize
    \/ Header_Format

SpecHeader == InitHeader /\ [][NextHeader]_vars

(***************************************************************************)
(* C21: for any header map h, also one with names that differ only in      *)
(* letter case, sanitizeHeader(h) has only lower-case keys and under the   *)
(* lower-cased form of each name of h a single value, the "; "-join of the *)
(* values h has under that name, in order.                                 *)
(***************************************************************************)
LowerCaseNames == {"cookie", "x-other"}

C21_Sanitized ==
    hpc \in {"sanitized", "formatted"} =>
        /\ DOMAIN newHeader = {ToLower[name] : name \in DOMAIN hgiven}
        /\ DOMAIN newHeader \subseteq LowerCaseNames
        /\ \A name \in DOMAIN hgiven :
              newHeader[ToLower[name]] = <<Join(hgiven[name], "; ")>>

\* The same for the maps whose names stay distinct in lower case.
C21_SanitizedDistinctNames ==
    (/\ hpc \in {"sanitized", "formatted"}
     /\ \A a, b \in DOMAIN hgiven : ToLower[a] = ToLower[b] => a = b) =>
        /\ DOMAIN newHeader = {ToLower[name] : name \in DOMAIN hgiven}
        /\ DOMAIN newHeader \subseteq LowerCaseNames
        /\ \A name \in DOMAIN hgiven :
              newHeader[ToLower[name]] = <<Join(hgiven[name], "; ")>>

(***************************************************************************)
(* C22: Register replaces by path and is idempotent, Deregister removes    *)
(* only its path.  On every registry the broker reaches: after             *)
(* Register(p, s2) following Register(p, s1) the registry maps p to s2 and *)
(* every other path as before, and the same Register once more changes     *)
(* nothing; Deregister(p) removes p, leaves every other path, and changes   *)
(* nothing when p is absent.  Every step that changes the registry changes  *)
(* one path only, and a dispatch calls, once, the sink its path is          *)
(* registered with when the fan-out runs, never a sink that was replaced.   *)
(***************************************************************************)
SameElsewhere(m1, m2, name) ==
    /\ DOMAIN m1 \ {name} = DOMAIN m2 \ {name}
    /\ \A n \in DOMAIN m1 \ {name} : m1[n] = m2[n]

RegistryAlgebra ==
    \A name \in SinkNames :
        /\ \A s1, s2 \in SinkInstances :
              LET once  == Register(backends, name, s1)
                  twice == Register(once, name, s2)
              IN  /\ name \in DOMAIN twice
                  /\ twice[name] = s2
                  /\ SameElsewhere(backends, twice, name)
                  /\ Register(twice, name, s2) = twice
        /\ LET gone == Deregister(backends, name)
           IN  /\ name \notin DOMAIN gone
               /\ SameElsewhere(backends, gone, name)
               /\ name \notin DOMAIN backends => gone = backends

CallsRegisteredSink ==
    \A d \in Dispatchers :
        \A i \in DOMAIN dlog[d] :
            /\ dlog[d][i].name \in DOMAIN dsnap[d]
            /\ dlog[d][i].backend = dsnap[d][dlog[d][i].name]
            /\ Cardinality(CallsTo(d, dlog[d][i].name)) = 1

OnePathAtATime ==
    backends' # backends =>
        \E name \in SinkNames : SameElsewhere(backends, backends', name)

C22_RegisterReplaces ==
    /\ [](RegistryAlgebra /\ CallsRegisteredSink)
    /\ [][OnePathAtATime]_vars

\* One dispatch has called a1 under "foo"; "foo" now belongs to a2 and a
\* later dispatch has called a2 under "foo", and only a2.
C22_Witness ==
    /\ DOMAIN backends = {"foo"}
    /\ backends["foo"] = "a2"
    /\ \E d1, d2 \in Dispatchers :
          /\ Dispatched(d1)
          /\ dlog[d1] # << >>
          /\ \A i \in DOMAIN dlog[d1] : dlog[d1][i].backend = "a1" /\ dlog[d1][i].name = "foo"
          /\ Dispatched(d2)
          /\ Len(dlog[d2]) = 1
          /\ dlog[d2][1].name = "foo"
          /\ dlog[d2][1].backend = "a2"

(***************************************************************************)
(* ServeHTTP on one exchange, step by step: the tee wrappers are           *)
(* installed, the handler reads the request body and writes its response   *)
(* through them, returns, and the exchange is fanned out to the sinks.     *)
(***************************************************************************)
MaxOps == 3

\* r.Body as the client sent it, byte by byte
RequestBodies == {<< >>, <<"a", "b", "c">>}

\* What the handler may call on the writer it is given
WriterCalls ==
    { [op |-> "WriteHeader", code |-> 200],
      [op |-> "WriteHeader", code |-> 403],
      [op |-> "Header.Add", name |-> "X-Foo", value |-> "bar"],
      [op |-> "Write", bytes |-> "Hello "],
      [op |-> "Write", bytes |-> "there"] }

\* &logical.TeeReadCloser{r.Body, bytes.Buffer{}}
NewTeeReadCloser(rest) == [rest |-> rest, Bytes |-> << >>]

\* TeeReadCloser.Read giving the handler the next n bytes of the body: they
\* are appended to Bytes as well
TeeRead(b, n) ==
    [b EXCEPT !.rest = SubSeq(@, n + 1, Len(@)),
              !.Bytes = @ \o SubSeq(b.rest, 1, n)]

InitTee ==
    /\ InitCore
    /\ backends = NewAuditBroker
    /\ InitBrokerIdle
    /\ InitHTTPIdle
    /\ InitSinkIdle
    /\ sinkB = [s \in Sinks |-> DefaultBackend]
    /\ c1pc = "ready"
    /\ InitSecondCore
    /\ InitHeaderIdle
    /\ InitHashIdle
    /\ InitOpenIdle
    /\ InitServeIdle
    /\ tpc = "start"
    /\ tee = Nil
    /\ body \in {[rest |-> rest, Bytes |-> << >>] : rest \in RequestBodies}
    /\ tcalls = << >>
    /\ thandler = [invoked |-> 0, returned |-> 0]
    /\ tlog = << >>

\* tee := logical.NewTeeResponseWriter(w); r.Body = body; h.ServeHTTP(tee, r)
\* is entered
Tee_Invoke ==
    /\ tpc = "start"
    /\ tee' = NewTeeResponseWriter(NewResponseWriter) @@ [DurationSet |-> FALSE]
    /\ body' = NewTeeReadCloser(body.rest)
    /\ thandler' = [thandler EXCEPT !.invoked = @ + 1]
    /\ tpc' = "handler"
    /\ UNCHANGED <<coreVars, backends, brokerVars, reloadVars, httpVars, sinkVars,
                   headerVars, hashVars, openVars, serveVars, tcalls, tlog>>

\* The handler calls WriteHeader, Write or Header().Add on the tee
Tee_HandlerWrites ==
    /\ tpc = "handler"
    /\ Len(tcalls) < MaxOps
    /\ \E c \in WriterCalls :
          /\ tee' = TeeApply(tee, c)
          /\ tcalls' = Append(tcalls, c)
    /\ UNCHANGED <<coreVars, backends, brokerVars, reloadVars, httpVars, sinkVars,
                   headerVars, hashVars, openVars, serveVars, tpc, body, thandler, tlog>>

\* The handler calls r.Body.Read(p): it gets some of the bytes left, at most
\* len(p) of them, or none at the end of the body
Tee_HandlerReads ==
    /\ tpc = "handler"
    /\ Len(tcalls) < MaxOps
    /\ \E n \in 0..Len(body.rest) :
          /\ n = 0 => body.rest = << >>
          /\ body' = TeeRead(body, n)
          /\ tcalls' = Append(tcalls, [op |-> "Read", bytes |-> SubSeq(body.rest, 1, n)])
    /\ UNCHANGED <<coreVars, backends, brokerVars, reloadVars, httpVars, sinkVars,
                   headerVars, hashVars, openVars, serveVars, tpc, tee, thandler, tlog>>

\* Mutant: when the handler returns, the rest of the body is read into Bytes.
Tee_HandlerReturns_Drain ==
    /\ tpc = "handler"
    /\ thandler' = [thandler EXCEPT !.returned = @ + 1]
    /\ body' = TeeRead(body, Len(body.rest))
    /\ tpc' = "returned"
    /\ UNCHANGED <<coreVars, backends, brokerVars, reloadVars, httpVars, sinkVars,
                   headerVars, hashVars, openVars, serveVars, tee, tcalls, tlog>>

\* h.ServeHTTP(tee, r) returns
Tee_HandlerReturns ==
    /\ tpc = "handler"
    /\ thandler' = [thandler EXCEPT !.returned = @ + 1]
    /\ tpc' = "returned"
    /\ UNCHANGED <<coreVars, backends, brokerVars, reloadVars, httpVars, sinkVars,
                   headerVars, hashVars, openVars, serveVars, tee, body, tcalls, tlog>>

\* Mutant: the fan-out starts without tee.Duration having been set.
Tee_SetDuration_Forgotten ==
    /\ tpc = "returned"
    /\ tpc' = "timed"
    /\ UNCHANGED <<coreVars, backends, brokerVars, reloadVars, httpVars, sinkVars,
                   headerVars, hashVars, openVars, serveVars, tee, body, tcalls, thandler, tlog>>

\* tee.Duration = time.Since(reqStart)
Tee_SetDuration ==
    /\ tpc = "returned"
    /\ tee' = [tee EXCEPT !.DurationSet = TRUE]
    /\ tpc' = "timed"
    /\ UNCHANGED <<coreVars, backends, brokerVars, reloadVars, httpVars, sinkVars,
                   headerVars, hashVars, openVars, serveVars, body, tcalls, thandler, tlog>>

\* a.l.RLock() and the range over a.backends
Tee_RLock ==
    /\ tpc = "timed"
    /\ tpc' = "loop"
    /\ UNCHANGED <<coreVars, backends, brokerVars, reloadVars, httpVars, sinkVars,
                   headerVars, hashVars, openVars, serveVars, tee, body, tcalls, thandler, tlog>>

\* be.backend.LogHTTPRequest(r, tee) on a sink not visited yet; a sink that
\* logs HTTP and redacts replaces the Bytes of r.Body and the Body of the tee
\* by their hash and the tee's RawHeader by the sanitized one
Tee_LogHTTPRequest(s) ==
    /\ tpc = "loop"
    /\ \A i \in DOMAIN tlog : tlog[i].sink # s
    /\ tlog' = Append(tlog, [sink |-> s, handler |-> thandler,
                             DurationSet |-> tee.DurationSet, Bytes |-> body.Bytes])
    /\ \E hashes \in BOOLEAN :
          IF hashes
          THEN /\ body' = [body EXCEPT !.Bytes = <<fn(Join(@, ""))>>]
               /\ tee' = [tee EXCEPT !.Body = <<fn(Join(@, ""))>>,
                                     !.RawHeader = HashHeader(sanitizeHeader(@))]
          ELSE UNCHANGED <<body, tee>>
    /\ UNCHANGED <<coreVars, backends, brokerVars, reloadVars, httpVars, sinkVars,
                   headerVars, hashVars, openVars, serveVars, tpc, tcalls, thandler>>

\* The loop is over and ServeHTTP returns
Tee_Done ==
    /\ tpc = "loop"
    /\ {tlog[i].sink : i \in DOMAIN tlog} = Sinks
    /\ tpc' = "done"
    /\ UNCHANGED <<coreVars, backends, brokerVars, reloadVars, httpVars, sinkVars,
                   headerVars, hashVars, openVars, serveVars, tee, body, tcalls, thandler, tlog>>

NextTee ==
    \/ Tee_Invoke
    \/ Tee_HandlerWrites
    \/ Tee_HandlerReads
    \/ Tee_HandlerReturns
    \/ Tee_SetDuration
    \/ Tee_RLock
    \/ \E s \in Sinks : Tee_LogHTTPRequest(s)
    \/ Tee_Done

SpecTee == InitTee /\ [][NextTee]_vars

(***************************************************************************)
(* C23: after any sequence of WriteHeader, Write and Header().Add calls of *)
(* the handler on the TeeResponseWriter, the tee's StatusCode is the code  *)
(* the wrapped writer received, the tee's Body is what was forwarded to    *)
(* the wrapped writer, chunk by chunk what the handler wrote, and the      *)
(* headers added through tee.Header() are on the wrapped writer.  This is   *)
(* the tee as the handler leaves it, before a sink has been given it.      *)
(***************************************************************************)
IsWriteHeader(c) == c.op = "WriteHeader"
IsWrite(c) == c.op = "Write"
IsHeaderAdd(c) == c.op = "Header.Add"
IsRead(c) == c.op = "Read"

Served == tpc \notin {"idle", "start"}

RECURSIVE BytesRead(_)
BytesRead(cs) ==
    IF cs = << >> THEN << >>
    ELSE (IF IsRead(cs[1]) THEN cs[1].bytes ELSE << >>) \o BytesRead(Tail(cs))

BufferIsWhatWasRead ==
    (Served /\ tlog = << >>) =>
        /\ body.Bytes = BytesRead(tcalls)
        /\ body.Bytes \o body.rest \in RequestBodies

OnlyTheHandlerReads ==
    /\ body'.rest # body.rest => (tpc = "handler" /\ tpc' = "handler")
    /\ body'.Bytes # body.Bytes => (tpc = "handler" \/ tpc = "loop")

C24_ReadPrefixCaptured ==
    /\ []BufferIsWhatWasRead
    /\ [][OnlyTheHandlerReads]_vars

\* The handler read two of the three bytes in two calls and returned; the
\* fan-out is about to start.
C24_Witness ==
    /\ tpc = "loop"
    /\ tlog = << >>
    /\ Len(SelectSeq(tcalls, IsRead)) = 2
    /\ body.Bytes = <<"a", "b">>
    /\ body.rest = <<"c">>

(***************************************************************************)
(* C25: ServeHTTP invokes the downstream handler exactly once; when a      *)
(* sink's LogHTTPRequest is called the handler has returned and            *)
(* tee.Duration has been set; while the handler has not returned no sink   *)
(* has been called.                                                        *)
(***************************************************************************)
C25_HandlerBeforeFanOut ==
    /\ thandler.invoked <= 1
    /\ thandler.returned <= thandler.invoked
    /\ tpc \in {"handler", "returned", "timed", "loop", "done"} => thandler.invoked = 1
    /\ thandler.returned = 0 => tlog = << >>
    /\ \A i \in DOMAIN tlog :
          /\ tlog[i].handler = [invoked |-> 1, returned |-> 1]
          /\ tlog[i].DurationSet

\* Both sinks have been called for an exchange whose handler made three
\* calls.
C25_Witness ==
    /\ tpc = "done"
    /\ Len(tlog) = 2
    /\ Len(tcalls) = 3

(***************************************************************************)
(* HashStructure on a value of its own, with a callback that may return an *)
(* error.  The value is held by reference; the walker visits the strings   *)
(* in the order of the slices and in some order of the keys of a map.      *)
(***************************************************************************)
\* The error the callback returns for the strings it fails on
CallbackError == "boom"

\* What sits under a key: strings (one a hash already), a number, a boolean,
\* a null, a slice, a map
ValuesUnderKey ==
    { Str("bar"), Str(fn("bar")), Num(7),
      [t |-> "bool", v |-> TRUE], [t |-> "nil", v |-> Nil],
      [t |-> "slice", v |-> <<Str("baz"), Num(7), Str("bar")>>],
      [t |-> "map", v |-> [key |-> Str("tok")]] }

\* The values HashStructure is called on: the data of a request or response,
\* and the []string of a header
HashInputs ==
    {[t |-> "map", v |-> [password |-> a, data |-> b]] : a, b \in ValuesUnderKey}
        \cup {[t |-> "slice", v |-> <<Str("tok"), Str("baz")>>]}

\* Callbacks, each given by the strings it returns CallbackError for
Callbacks == {{}, {"bar"}, {"baz"}, {"tok"}}

RECURSIVE ConcatAll(_)
ConcatAll(seqs) ==
    IF seqs = << >> THEN << >> ELSE Head(seqs) \o ConcatAll(Tail(seqs))

\* The strings reflectwalk hands to hashWalker.Primitive outside map keys,
\* in the order of the walk; keys is the order of the range over the
\* outermost map (the maps inside have one key)
RECURSIVE StringsWalked(_, _)
StringsWalked(v, keys) ==
    IF v.t = "string" THEN <<v.v>>
    ELSE IF v.t = "slice"
         THEN ConcatAll([i \in DOMAIN v.v |-> StringsWalked(v.v[i], << >>)])
    ELSE IF v.t = "map"
         THEN LET ks == IF keys # << >> THEN keys
                        ELSE CHOOSE o \in RangeOrders(v.v) : TRUE
              IN  ConcatAll([i \in DOMAIN ks |-> StringsWalked(v.v[ks[i]], << >>)])
    ELSE << >>

\* Index of the first string the callback fails on, 0 when there is none
FirstFailure(strings, failing) ==
    IF \E i \in DOMAIN strings : strings[i] \in failing
    THEN CHOOSE i \in DOMAIN strings :
            /\ strings[i] \in failing
            /\ \A j \in 1..(i - 1) : strings[j] \notin failing
    ELSE 0

\* hashWalker.Primitive on a callback error:
\* fmt.Errorf("Error hashing value: %s", err)
Primitive_Error(e) == "Error hashing value: " \o e

\* reflectwalk.Walk(s, walker) on the value v: the callback is given the
\* strings in turn; its first error stops the walk
Walk(v, keys, failing) ==
    LET strings == StringsWalked(v, keys)
        k == FirstFailure(strings, failing)
    IN  IF k = 0
        THEN [err |-> Nil, val |-> HashStructure(v), calls |-> strings]
        ELSE [err |-> Primitive_Error(CallbackError), val |-> v,
              calls |-> SubSeq(strings, 1, k)]

\* HashStructure(s, cb) on the value at address p: the copy is walked and
\* returned, or nil and the error of the walk
HashStructureAt(h, p, keys, failing) ==
    LET c == Copy(h, p)
        w == Walk(c.heap[c.ptr], keys, failing)
    IN  IF w.err = Nil
        THEN [heap |-> [c.heap EXCEPT ![c.ptr] = w.val], ptr |-> c.ptr,
              err |-> Nil, calls |-> w.calls]
        ELSE [heap |-> c.heap, ptr |-> 0, err |-> w.err, calls |-> w.calls]

InitHash ==
    /\ InitCore
    /\ backends = NewAuditBroker
    /\ InitBrokerIdle
    /\ InitHTTPIdle
    /\ InitSinkIdle
    /\ sinkB = [s \in Sinks |-> DefaultBackend]
    /\ c1pc = "ready"
    /\ InitSecondCore
    /\ InitHeaderIdle
    /\ InitTeeIdle
    /\ InitOpenIdle
    /\ InitServeIdle
    /\ xpc = "start"
    /\ \E v \in HashInputs : xheap = <<v>> /\ xorig = v
    /\ xcb \in Callbacks
    /\ xret = Nil

\* data, err := HashStructure(s, cb)
Hash_Call ==
    /\ xpc = "start"
    /\ \E keys \in (IF xheap[1].t = "map" THEN RangeOrders(xheap[1].v) ELSE {<< >>}) :
          LET r == HashStructureAt(xheap, 1, keys, xcb) IN
          /\ xheap' = r.heap
          /\ xret' = [ptr |-> r.ptr, err |-> r.err, calls |-> r.calls, keys |-> keys]
    /\ xpc' = "done"
    /\ UNCHANGED <<coreVars, backends, brokerVars, reloadVars, httpVars, sinkVars,
                   headerVars, teeVars, openVars, serveVars, xorig, xcb>>

NextHash == Hash_Call

SpecHash == InitHash /\ [][NextHash]_vars

(***************************************************************************)
(* C26: when the callback returns no error, HashStructure returns a value  *)
(* of the shape of its input in which every string s, also one that is a   *)
(* hash already, is "sha1:" + hex(sha1(s)); keys, numbers, booleans,       *)
(* nulls, the number of entries of a map and the length and order of a     *)
(* slice are as in the input; the input itself is as it was.               *)
(***************************************************************************)
C26_ShapePreserved ==
    (xpc = "done" /\ xret.err = Nil) =>
        /\ xret.ptr # 1
        /\ Redacted(xorig, xheap[xret.ptr])
        /\ xheap[1] = xorig

\* A map with a hash under one key and a slice under the other has been
\* hashed.
C26_Witness ==
    /\ xpc = "done"
    /\ xret.err = Nil
    /\ xorig.t = "map"
    /\ xorig.v.password = Str(fn("bar"))
    /\ xorig.v.data.t = "slice"
    /\ xheap[xret.ptr].v.password = Str(fn(fn("bar")))

(***************************************************************************)
(* C27: when the callback returns the error e for some string, no string   *)
(* after that one is handed to the callback, and HashStructure returns e   *)
(* itself, unchanged, and no value.                                        *)
(***************************************************************************)
CallbackFails ==
    /\ xpc = "done"
    /\ \E i \in DOMAIN StringsWalked(xorig, xret.keys) :
          StringsWalked(xorig, xret.keys)[i] \in xcb

\* The callback was handed the strings up to the first it fails on, and no
\* other.
StoppedAtFirstError ==
    LET strings == StringsWalked(xorig, xret.keys) IN
    /\ xret.calls # << >>
    /\ xret.calls = SubSeq(strings, 1, Len(xret.calls))
    /\ xret.calls[Len(xret.calls)] \in xcb
    /\ \A i \in 1..(Len(xret.calls) - 1) : xret.calls[i] \notin xcb

C27_ErrorReturnedUnchanged ==
    CallbackFails =>
        /\ StoppedAtFirstError
        /\ xret.ptr = 0
        /\ xret.err = CallbackError

\* What the code does: the walk stops at the first error, and the error
\* returned is a new one whose text holds the text of e.
C27_ErrorReturnedWrapped ==
    CallbackFails =>
        /\ StoppedAtFirstError
        /\ xret.ptr = 0
        /\ xret.err = "Error hashing value: " \o CallbackError
        /\ xheap[1] = xorig

\* The callback failed on the second of three strings that were to be walked.
C27_Witness ==
    /\ CallbackFails
    /\ Len(xret.calls) = 2
    /\ Len(StringsWalked(xorig, xret.keys)) > 2

(***************************************************************************)
(* Log* calls on one file sink that run at the same time.  The broker      *)
(* calls its sinks holding the read lock only, so two dispatches can be    *)
(* inside the same sink together; open() takes no lock and the sink's      *)
(* sync.Once is not used.                                                  *)
(***************************************************************************)
MaxLogs == 3         \* Log* calls made on the sink in one run

\* The goroutines that can be inside the sink together
Goroutines == {"g1", "g2"}

InitOpen ==
    /\ InitCore
    /\ backends = NewAuditBroker
    /\ InitBrokerIdle
    /\ InitHTTPIdle
    /\ InitSinkIdle
    /\ sinkB = [s \in Sinks |-> DefaultBackend]
    /\ c1pc = "ready"
    /\ InitSecondCore
    /\ InitHeaderIdle
    /\ InitTeeIdle
    /\ InitHashIdle
    /\ InitServeIdle
    /\ opc = [g \in Goroutines |-> "idle"]
    /\ bf = 0
    /\ opened = 0
    /\ owritten = << >>
    /\ ologs = 0

OpenUnchanged ==
    UNCHANGED <<coreVars, backends, brokerVars, reloadVars, httpVars, sinkVars,
                headerVars, teeVars, hashVars, serveVars>>

\* A Log* method that is to write an entry reaches b.open()
Open_Call(g) ==
    /\ opc[g] = "idle"
    /\ ologs < MaxLogs
    /\ ologs' = ologs + 1
    /\ opc' = [opc EXCEPT ![g] = "open"]
    /\ UNCHANGED <<bf, opened, owritten>>
    /\ OpenUnchanged

\* if b.f != nil { return nil }
Open_Test(g) ==
    /\ opc[g] = "open"
    /\ opc' = [opc EXCEPT ![g] = IF bf # 0 THEN "format" ELSE "openfile"]
    /\ UNCHANGED <<bf, opened, owritten, ologs>>
    /\ OpenUnchanged

\* os.MkdirAll, then b.f, err = os.OpenFile(...): a new handle, or an error
\* (b.f is assigned in both cases)
Open_OpenFile(g) ==
    /\ opc[g] = "openfile"
    /\ \E mkdir, ok \in BOOLEAN :
          IF ~mkdir
          THEN /\ opc' = [opc EXCEPT ![g] = "idle"]
               /\ UNCHANGED <<bf, opened>>
          ELSE IF ok
          THEN /\ opened' = opened + 1
               /\ bf' = opened + 1
               /\ opc' = [opc EXCEPT ![g] = "format"]
          ELSE /\ bf' = 0
               /\ opc' = [opc EXCEPT ![g] = "idle"]
               /\ UNCHANGED opened
    /\ UNCHANGED <<owritten, ologs>>
    /\ OpenUnchanged

\* format.FormatRequest(b.f, ...): the entry is written through the handle
\* b.f holds now
Open_Format(g) ==
    /\ opc[g] = "format"
    /\ owritten' = Append(owritten, bf)
    /\ opc' = [opc EXCEPT ![g] = "idle"]
    /\ UNCHANGED <<bf, opened, ologs>>
    /\ OpenUnchanged

NextOpen ==
    \E g \in Goroutines : Open_Call(g) \/ Open_Test(g) \/ Open_OpenFile(g) \/ Open_Format(g)

SpecOpen == InitOpen /\ [][NextOpen]_vars

(***************************************************************************)
(* C28: under any interleaving of Log* calls on one file sink the file is  *)
(* opened at most once and every entry is written through that one handle. *)
(***************************************************************************)
C28_OpenedOnce ==
    /\ opened <= 1
    /\ \A i \in DOMAIN owritten : owritten[i] = 1

(***************************************************************************)
(* C29: whenever no enableAudit or disableAudit call is in progress, the   *)
(* paths registered with the broker, the paths of the in-memory table and  *)
(* the paths of the table stored in the barrier are the same set, also     *)
(* after calls that ran at the same time.                                  *)
(***************************************************************************)
NoCallInProgress == \A p \in Procs : pc[p] = "idle"

C29_ThreeViewsAgree ==
    NoCallInProgress =>
        /\ DOMAIN backends = PathsOf(Entries)
        /\ PathsOf(Entries) = PathsOf(Unmarshal(barrier))

(***************************************************************************)
(* C30: when the broker's LogRequest or LogResponse returns nil with at    *)
(* least one sink registered, at least one registered sink has emitted an  *)
(* entry, whatever the options of the sinks, log_http = true included.     *)
(***************************************************************************)
\* anyLogged after the range loop: some sink returned nil
anyLogged == \E s \in Sinks : sret[s].called /\ sret[s].err = Nil

\* What LogRequest / LogResponse of the broker returns after the loop
FanOutResult ==
    IF ~anyLogged /\ Cardinality(Sinks) > 0
    THEN "no audit backend succeeded in logging"
    ELSE Nil

\* The range loop of a LogRequest or LogResponse is over
FanOutOver == skind \in {"request", "response"} /\ Visited = Sinks

C30_NilMeansEmitted ==
    (FanOutOver /\ FanOutResult = Nil) =>
        \E s \in Sinks : sret[s].out # << >>

\* With no sink in log_http mode, nil from the broker means an entry.
C30_NilMeansEmittedDefaultMode ==
    (FanOutOver /\ FanOutResult = Nil /\ \A s \in Sinks : ~sinkB[s].LogHTTP) =>
        \E s \in Sinks : sret[s].out # << >>

(***************************************************************************)
(* One ServeHTTP call of the broker while another goroutine registers and  *)
(* deregisters sinks.  ServeHTTP calls the handler first and takes the     *)
(* read lock afterwards; Register and Deregister take the write lock.      *)
(***************************************************************************)
MaxRegistryOps == 3      \* Register / Deregister calls made in one run

\* Mutant: the range loop leaves out the sinks registered after the request
\* arrived.
Serve_RLock_ArrivalSet ==
    /\ vpc = "returned"
    /\ vsnap' = backends
    /\ vtodo' = DOMAIN backends \cap DOMAIN varrived
    /\ vpc' = "loop"
    /\ UNCHANGED <<coreVars, backends, brokerVars, reloadVars, httpVars, sinkVars,
                   headerVars, teeVars, hashVars, openVars, varrived, vreturned, vcalled, vregs>>

InitServe ==
    /\ InitCore
    /\ backends = NewAuditBroker
    /\ InitBrokerIdle
    /\ InitHTTPIdle
    /\ InitSinkIdle
    /\ sinkB = [s \in Sinks |-> DefaultBackend]
    /\ c1pc = "ready"
    /\ InitSecondCore
    /\ InitHeaderIdle
    /\ InitTeeIdle
    /\ InitHashIdle
    /\ InitOpenIdle
    /\ vpc = "start"
    /\ varrived = NewAuditBroker
    /\ vreturned = NewAuditBroker
    /\ vsnap = NewAuditBroker
    /\ vtodo = {}
    /\ vcalled = << >>
    /\ vregs = 0

ServeUnchanged ==
    UNCHANGED <<coreVars, brokerVars, reloadVars, httpVars, sinkVars,
                headerVars, teeVars, hashVars, openVars>>

\* ServeHTTP is entered: reqStart, tee and body are made and h.ServeHTTP(tee, r)
\* is called; no lock is taken
Serve_Enter ==
    /\ vpc = "start"
    /\ varrived' = backends
    /\ vpc' = "handler"
    /\ UNCHANGED <<backends, vreturned, vsnap, vtodo, vcalled, vregs>>
    /\ ServeUnchanged

\* h.ServeHTTP(tee, r) returns; tee.Duration is set
Serve_HandlerReturns ==
    /\ vpc = "handler"
    /\ vreturned' = backends
    /\ vpc' = "returned"
    /\ UNCHANGED <<backends, varrived, vsnap, vtodo, vcalled, vregs>>
    /\ ServeUnchanged

\* a.l.RLock(); the range over a.backends starts
Serve_RLock ==
    /\ vpc = "returned"
    /\ vsnap' = backends
    /\ vtodo' = DOMAIN backends
    /\ vpc' = "loop"
    /\ UNCHANGED <<coreVars, backends, brokerVars, reloadVars, httpVars, sinkVars,
                   headerVars, teeVars, hashVars, openVars, varrived, vreturned, vcalled, vregs>>

\* One iteration of the range loop: be.backend.LogHTTPRequest(r, tee)
Serve_LogHTTPRequest ==
    /\ vpc = "loop"
    /\ \E name \in vtodo :
          /\ vcalled' = Append(vcalled, [name |-> name, backend |-> backends[name]])
          /\ vtodo' = vtodo \ {name}
    /\ UNCHANGED <<backends, vpc, varrived, vreturned, vsnap, vregs>>
    /\ ServeUnchanged

\* The loop is over; ServeHTTP returns and the deferred RUnlock() runs
Serve_Return ==
    /\ vpc = "loop"
    /\ vtodo = {}
    /\ vpc' = "done"
    /\ UNCHANGED <<backends, varrived, vreturned, vsnap, vtodo, vcalled, vregs>>
    /\ ServeUnchanged

\* a.Register(name, b, view) on another goroutine: a.l.Lock() is granted
\* when no reader holds the lock
Serve_Register(name, b) ==
    /\ vpc # "loop"
    /\ vregs < MaxRegistryOps
    /\ backends' = Register(backends, name, b)
    /\ vregs' = vregs + 1
    /\ UNCHANGED <<vpc, varrived, vreturned, vsnap, vtodo, vcalled>>
    /\ ServeUnchanged

\* a.Deregister(name) on another goroutine
Serve_Deregister(name) ==
    /\ vpc # "loop"
    /\ vregs < MaxRegistryOps
    /\ backends' = Deregister(backends, name)
    /\ vregs' = vregs + 1
    /\ UNCHANGED <<vpc, varrived, vreturned, vsnap, vtodo, vcalled>>
    /\ ServeUnchanged

NextServe ==
    \/ Serve_Enter
    \/ Serve_HandlerReturns
    \/ Serve_RLock
    \/ Serve_LogHTTPRequest
    \/ Serve_Return
    \/ \E name \in SinkNames, b \in SinkInstances : Serve_Register(name, b)
    \/ \E name \in SinkNames : Serve_Deregister(name)

SpecServe == InitServe /\ [][NextServe]_vars

(***************************************************************************)
(* C31: ServeHTTP does not hold the broker's lock while the handler runs:  *)
(* a Register or Deregister made while the handler runs completes, and the *)
(* fan-out of the exchange calls the sinks registered when the read lock   *)
(* is taken, after the handler has returned, each of them once and no      *)
(* other, whatever was registered when the request arrived.                *)
(***************************************************************************)
CalledNames == {vcalled[i].name : i \in DOMAIN vcalled}

\* A step of Register or Deregister that changes the registry
RegistryChanges == backends' # backends

C31_FanOutUsesSetAtLock ==
    /\ [](/\ vpc \in {"start", "handler", "returned"} => vcalled = << >>
          /\ vpc = "loop" => vsnap = backends
          /\ vpc \in {"loop", "done"} =>
                /\ CalledNames \cup vtodo = DOMAIN vsnap
                /\ CalledNames \cap vtodo = {}
                /\ \A i, j \in DOMAIN vcalled :
                      vcalled[i].name = vcalled[j].name => i = j
                /\ \A i \in DOMAIN vcalled :
                      vcalled[i].backend = vsnap[vcalled[i].name]
          /\ vpc = "done" => CalledNames = DOMAIN vsnap)
    /\ [][/\ RegistryChanges => vpc # "loop" /\ vpc' = vpc
          /\ (vpc = "returned" /\ vpc' = "loop") => vsnap' = backends]_vars

\* A sink was registered and another deregistered while the handler ran; the
\* fan-out called the new one and not the old one.
C31_Witness ==
    /\ vpc = "done"
    /\ "foo" \in DOMAIN varrived
    /\ "bar" \notin DOMAIN varrived
    /\ DOMAIN vreturned = {"bar"}
    /\ CalledNames = {"bar"}

(***************************************************************************)
(* C32: the "error" field of a response entry is the message of the error  *)
(* passed to LogResponse, and it is the empty string only when that error  *)
(* is nil.                                                                 *)
(***************************************************************************)
\* Sink s has written a response entry in the fan-out in progress
WroteResponseEntry(s) ==
    /\ skind = "response"
    /\ sret[s].called
    /\ sret[s].out # << >>

C32_ErrorFieldIsMessage ==
    \A s \in Sinks :
        WroteResponseEntry(s) =>
            sret[s].out[1].error = (IF sargs.err = Nil THEN "" ELSE sargs.err)

\* What the code does: the field is the empty string in every response entry.
C32_ErrorFieldEmpty ==
    \A s \in Sinks :
        WroteResponseEntry(s) => sret[s].out[1].error = ""

\* A response entry was written for a call whose error was not nil.
C32_Witness ==
    \E s \in Sinks : WroteResponseEntry(s) /\ sargs.err # Nil

====
